---- MODULE Spec2Model ----
(***************************************************************************)
(* Model of the repository export core of Boost2Git                        *)
(* (src/src/repository.cpp): the mark allocator, the branch registry, the   *)
(* pending reset buffers, transactions, and incremental recovery from the  *)
(* marks file and the progress log.                                        *)
(*                                                                         *)
(* Spec      one repository driven through SVN revisions in ascending      *)
(*           order (createBranch, deleteBranch, Repository::commit,        *)
(*           newTransaction, Transaction::commit, ~Transaction).           *)
(* SpecMarks the mark allocator under transactions that overlap.           *)
(* SpecIncr  setupIncremental and restoreLog on a log file, a backup file  *)
(*           and a marks file left by an earlier run.                      *)
(* SpecCache several repositories that share the process cache and start,  *)
(*           close and lose their children.                                *)
(* SpecMerge transactions that stage merge parents and commit.             *)
(* SpecNotes branch operations on branches that carry notes.               *)
(* SpecReload one repository whose child is closed, or dies, and is        *)
(*           started again.                                                *)
(* SpecLookup branch creations and copies between branches on the registry *)
(*           of a fresh repository.                                        *)
(*                                                                         *)
(* Q_ASSERT is modelled as compiled in: a failed assertion halts the       *)
(* program (halt = "assert"); an exception or qFatal gives halt = "fatal". *)
(***************************************************************************)
EXTENDS Integers, Sequences, FiniteSets, TLC

\* ------------------------------------------------------------------ bounds
\* width of the mark space; the source uses 20 bits (maxMark = (1 << 20) - 2)
MarkBits == 3
\* SVN revisions the driver walks through
MaxRev == 2
\* entries the branch records may hold together before the model stops adding
MaxEntries == 4
\* createBranch and deleteBranch calls on one ref between two flushes
MaxOps == 3
\* files a transaction may add
MaxFiles == 2
\* lines of a log file left by an earlier run
MaxLogLen == 2
\* lines of a marks file left by an earlier run
MaxMarksLen == 3
\* largest mark in the files left by an earlier run
MaxOldMark == 2
\* transactions outstanding at the same time
MaxTxn == 2
\* options.commit_interval: transactions between two automatic checkpoints
commit_interval == 2
\* capacity of the process cache; the source uses 100
maxSimultaneousProcesses == 2
\* parents a commit may have; the source uses the literal 16 (line 879)
maxParents == 2
\* "reloaded" lines in the log after which the child is no longer closed
MaxReloads == 2

\* --------------------------------------------------------------- constants
maxMark == 2^MarkBits - 2

Master == "refs/heads/master"
Topic == "refs/heads/topic"
Refs == {Master, Topic}
\* the refs of the model that start with "refs/heads/"
Heads == {Master, Topic}
\* the repositories that share the process cache, one more than it holds;
\* Spec drives the first
Repos == 1..(maxSimultaneousProcesses + 1)
This == 1
\* options.dry_run
dry_run == FALSE

VARIABLES
    rev,                    \* the SVN revision the driver is at
    svnRules,               \* branches declared by the rule set (constructor)
    branches,               \* branch registry: ref -> [created, commits, marks]
    last_commit_mark,
    next_file_mark,
    outstandingTransactions,
    commitCount,            \* kept modulo commit_interval
    resetBranches,          \* pending resets: ref -> payload
    deletedBranches,        \* pending deletions: ref -> payload
    txns,                   \* transaction objects, by slot
    processCache,           \* LRU list of repositories with a child
    fastImportRunning,      \* fastImport.state() != NotRunning
    processHasStarted,
    out,                    \* commands the last operation wrote to fastImport
    logfile,                \* log-<name>: [exists, lines]
    bkup,                   \* log-<name>.old: [exists, lines]
    marksfile,              \* marks-<name>: [exists, lines]
    cutoff,                 \* the caller's cutoff (int &cutoff)
    retval,                 \* what setupIncremental returned
    pc,                     \* "run", or the step of incremental start-up
    halt,                   \* "none", "assert" (Q_ASSERT failed), "fatal"
    ops,                    \* per ref: createBranch/deleteBranch calls since the buffers were last empty
    opsFlushed,             \* the last operation was a Repository::commit that flushed the calls in ops
    commitMarks,            \* every mark handed out by Transaction::commit
    blobMarks,              \* every mark handed out by addFile
    blobSince,              \* marks handed out by addFile since next_file_mark was last reset
    blobHeaders,            \* marks of the blob headers written to the stream since then
    origlog,                \* the log file as it was before setupIncremental
    origcutoff,             \* the cutoff the caller passed to setupIncremental
    notes,                  \* branches[ref].note by ref, empty for a ref the registry lacks
    procEvents,             \* SpecCache: what the last operation did to the children, in order
                            \* (a close that follows a close of the same repository keeps it)
    touched,                \* SpecCache: the repositories in the order of their latest touch
    childLife               \* SpecCache: per repository, the last of the start and close calls

vars == <<rev, svnRules, branches, last_commit_mark, next_file_mark,
          outstandingTransactions, commitCount, resetBranches, deletedBranches,
          txns, processCache, fastImportRunning, processHasStarted, out,
          logfile, bkup, marksfile, cutoff, retval, pc, halt, ops,
          opsFlushed, commitMarks, blobMarks, blobSince, origlog, origcutoff,
          procEvents, touched, notes, childLife, blobHeaders>>

procVars == <<processCache, fastImportRunning, processHasStarted, procEvents, touched,
              childLife>>
fileVars == <<bkup, marksfile, cutoff, retval, pc, origlog, origcutoff>>
markHist == <<commitMarks, blobMarks, blobSince, blobHeaders>>

\* ----------------------------------------------------------------- helpers
Last(s) == s[Len(s)]

Max(a, b) == IF a > b THEN a ELSE b

EmptyMap == [x \in {} |-> <<>>]

\* all the orders in which the keys of a container may be visited
Orders(S) == {s \in [1..Cardinality(S) -> S] : \A i, j \in 1..Cardinality(S) : i # j => s[i] # s[j]}

RECURSIVE Concat(_, _)
Concat(ord, m) == IF ord = <<>> THEN <<>> ELSE m[ord[1]] \o Concat(Tail(ord), m)

RECURSIVE RemoveOne(_, _)
RemoveOne(s, x) ==
    IF s = <<>> THEN <<>>
    ELSE IF s[1] = x THEN Tail(s)
    ELSE <<s[1]>> \o RemoveOne(Tail(s), x)

\* ---------------------------------------------------- fast-import commands
NoRef == [ns |-> "none", name |-> "", rev |-> 0]
BranchRef(ref) == [ns |-> "branch", name |-> ref, rev |-> 0]
NoFrom == [t |-> "none", mark |-> 0, name |-> ""]
FromMark(m) == [t |-> "mark", mark |-> m, name |-> ""]
FromRef(ref) == [t |-> "ref", mark |-> 0, name |-> ref]
null_sha == [t |-> "sha0", mark |-> 0, name |-> ""]
NoComment == [kind |-> "none", src |-> "", at |-> -1, to |-> -1, unknown |-> FALSE, merges |-> <<>>]
DeleteComment == [kind |-> "delete", src |-> "", at |-> -1, to |-> -1, unknown |-> FALSE, merges |-> <<>>]
\* "from branch " + branchFrom
FromBranchDesc(branchFrom) ==
    [kind |-> "from", src |-> branchFrom, at |-> -1, to |-> -1, unknown |-> FALSE, merges |-> <<>>]
\* " # merge from" and the marks of desc (Transaction::commit lines 891-892, 908)
MergeDesc(desc) ==
    [kind |-> "merge", src |-> "", at |-> -1, to |-> -1, unknown |-> FALSE, merges |-> desc]

Cmd(op, ref, from, r, mark, comment) ==
    [op |-> op, ref |-> ref, from |-> from, rev |-> r, mark |-> mark, comment |-> comment]
\* "reset <ref>\nfrom <target>\n\n"
ResetCmd(ref, from) == Cmd("reset", ref, from, 0, 0, NoComment)
\* "progress SVN r<rev> branch <ref> = :<mark>[ # <comment>]\n\n"
ProgressCmd(r, ref, mark, comment) == Cmd("progress", BranchRef(ref), NoFrom, r, mark, comment)
\* "progress Branch <ref> reloaded\n"
ReloadedCmd(ref) == Cmd("reloaded", BranchRef(ref), NoFrom, 0, 0, NoComment)
CheckpointCmd == Cmd("checkpoint", NoRef, NoFrom, 0, 0, NoComment)
CommitCmd(ref, mark) == Cmd("commit", BranchRef(ref), NoFrom, 0, mark, NoComment)
ModifyCmd(mark) == Cmd("M", NoRef, NoFrom, 0, mark, NoComment)
BlobCmd(mark) == Cmd("blob", NoRef, NoFrom, 0, mark, NoComment)
MergeCmd(mark) == Cmd("merge", NoRef, NoFrom, 0, mark, NoComment)

\* the child's standard output is appended to the log file: it echoes the
\* progress commands it reads
IsProgressOp(c) == c.op \in {"progress", "reloaded"}

\* --------------------------------------------------------- branch registry
DefaultBranch == [created |-> 0, commits |-> <<>>, marks |-> <<>>]

\* branches.value(ref): the record, or a default-constructed one
Br(b, ref) == IF ref \in DOMAIN b THEN b[ref] ELSE DefaultBranch

\* branches[ref] = rec: operator[] inserts the key when it is missing
Put(b, ref, rec) == [x \in (DOMAIN b) \cup {ref} |-> IF x = ref THEN rec ELSE b[x]]

RECURSIVE SumEntries(_, _)
SumEntries(b, S) ==
    IF S = {} THEN 0
    ELSE LET x == CHOOSE y \in S : TRUE
         IN Len(b[x].commits) + SumEntries(b, S \ {x})

\* the model adds to the registry while it holds fewer than MaxEntries entries
RoomFor(b) == SumEntries(b, DOMAIN b) < MaxEntries

IsLive(br) == br.marks # <<>> /\ Last(br.marks) # 0

\* the registry the constructor builds
ConstructedBranches(rules) ==
    [x \in rules \cup {Master} |->
        IF x = Master THEN [created |-> 1, commits |-> <<>>, marks |-> <<>>]
        ELSE DefaultBranch]

\* a variant of the search that finds the first entry >= value
RECURSIVE LowerBound(_, _, _, _)
LowerBound(s, value, begin, n) ==
    IF n <= 0 THEN begin
    ELSE LET half == n \div 2
             middle == begin + half
         IN IF s[middle + 1] < value
            THEN LowerBound(s, value, middle + 1, n - (half + 1))
            ELSE LowerBound(s, value, begin, half)

qUpperBound_Lower(s, value) == LowerBound(s, value, 0, Len(s))

\* qUpperBound(commits, value): binary search for the first entry > value,
\* as a count of entries from the beginning of the vector
RECURSIVE UpperBound(_, _, _, _)
UpperBound(s, value, begin, n) ==
    IF n <= 0 THEN begin
    ELSE LET half == n \div 2
             middle == begin + half
         IN IF value < s[middle + 1]
            THEN UpperBound(s, value, begin, half)
            ELSE UpperBound(s, value, middle + 1, n - (half + 1))

qUpperBound(s, value) == UpperBound(s, value, 0, Len(s))

\* what markFrom appends to a non-empty description
AnnotateDesc(desc, branchRevNum, closestCommit) ==
    IF desc.kind = "none" THEN desc
    ELSE [desc EXCEPT !.at = branchRevNum,
                      !.to = IF closestCommit # branchRevNum THEN closestCommit ELSE -1]

\* a variant of markFrom without the shortcut of lines 336-338 for the last
\* recorded revision
markFrom_NoShortcut(b, branchFrom, branchRevNum, branchFromDesc) ==
    LET brFrom == Br(b, branchFrom)
        b1 == Put(b, branchFrom, brFrom)
        it == qUpperBound(brFrom.commits, branchRevNum)
    IN IF brFrom.created = 0 \/ brFrom.commits = <<>>
       THEN [mark |-> -1, desc |-> branchFromDesc, branches |-> b1]
       ELSE IF it = 0
       THEN [mark |-> 0, desc |-> branchFromDesc, branches |-> b1]
       ELSE [mark |-> brFrom.marks[it],
             desc |-> AnnotateDesc(branchFromDesc, branchRevNum, brFrom.commits[it]),
             branches |-> b1]

\* Repository::markFrom: the mark, the description and the registry it leaves
markFrom(b, branchFrom, branchRevNum, branchFromDesc) ==
    LET brFrom == Br(b, branchFrom)
        b1 == Put(b, branchFrom, brFrom)
        it == qUpperBound(brFrom.commits, branchRevNum)
    IN IF brFrom.created = 0
       THEN [mark |-> -1, desc |-> branchFromDesc, branches |-> b1]
       ELSE IF brFrom.commits = <<>>
       THEN [mark |-> -1, desc |-> branchFromDesc, branches |-> b1]
       ELSE IF branchRevNum = Last(brFrom.commits)
       THEN [mark |-> Last(brFrom.marks), desc |-> branchFromDesc, branches |-> b1]
       ELSE IF it = 0
       THEN [mark |-> 0, desc |-> branchFromDesc, branches |-> b1]
       ELSE [mark |-> brFrom.marks[it],
             desc |-> AnnotateDesc(branchFromDesc, branchRevNum, brFrom.commits[it]),
             branches |-> b1]

\* the backup ref resetBranch names
BackupRef(branch, revnum, comment) ==
    IF comment.kind = "delete" /\ branch \in Heads
    THEN [ns |-> "tags/backups", name |-> branch, rev |-> revnum]
    ELSE [ns |-> "backups", name |-> branch, rev |-> revnum]

\* a variant of the backup that compares the revision of the latest entry
backupCmd_LatestEntry(br, branch, revnum, comment) ==
    IF br.marks # <<>> /\ Last(br.marks) # 0 /\ Last(br.commits) # revnum
    THEN <<ResetCmd(BackupRef(branch, revnum, comment), FromRef(branch))>>
    ELSE <<>>

\* Repository::resetBranch lines 421-439: the backup command, empty when the
\* ref is not backed up
backupCmd(br, branch, revnum, comment) ==
    IF br.created # 0 /\ br.created # revnum /\ br.marks # <<>> /\ Last(br.marks) # 0
    THEN <<ResetCmd(BackupRef(branch, revnum, comment), FromRef(branch))>>
    ELSE <<>>

\* a variant of the record update that prepends the revision
ResetRecord_Prepend(br, revnum, mark) ==
    [created |-> revnum,
     commits |-> <<revnum>> \o br.commits,
     marks |-> <<mark>> \o br.marks]

\* Repository::resetBranch lines 441-443
ResetRecord(br, revnum, mark) ==
    [created |-> revnum,
     commits |-> Append(br.commits, revnum),
     marks |-> Append(br.marks, mark)]

\* a variant of resetBranch whose deletion never drops a pending reset
resetBranch_NoCollapse(b, rb, db, branch, revnum, mark, resetTo, comment) ==
    LET br == Br(b, branch)
        bk == IF br.created # 0 /\ br.created # revnum /\ br.marks # <<>> /\ Last(br.marks) # 0
              THEN <<ResetCmd(BackupRef(branch, revnum, comment), FromRef(branch))>>
              ELSE <<>>
        cmd == <<ResetCmd(BranchRef(branch), resetTo),
                 ProgressCmd(revnum, branch, mark, comment)>>
        old(m) == IF branch \in DOMAIN m THEN m[branch] ELSE <<>>
        rec == [created |-> revnum, commits |-> Append(br.commits, revnum),
                marks |-> Append(br.marks, mark)]
    IN [branches |-> Put(b, branch, rec),
        resetBranches |->
            IF comment.kind = "delete" THEN rb ELSE Put(rb, branch, old(rb) \o bk \o cmd),
        deletedBranches |->
            IF comment.kind = "delete" THEN Put(db, branch, old(db) \o bk \o cmd) ELSE db]

\* a variant of resetBranch whose reset drops a pending deletion of the ref
resetBranch_DropsDeletion(b, rb, db, branch, revnum, mark, resetTo, comment) ==
    LET br == Br(b, branch)
        bk == IF br.created # 0 /\ br.created # revnum /\ br.marks # <<>> /\ Last(br.marks) # 0
              THEN <<ResetCmd(BackupRef(branch, revnum, comment), FromRef(branch))>>
              ELSE <<>>
        cmd == <<ResetCmd(BranchRef(branch), resetTo),
                 ProgressCmd(revnum, branch, mark, comment)>>
        old(m) == IF branch \in DOMAIN m THEN m[branch] ELSE <<>>
        rec == [created |-> revnum, commits |-> Append(br.commits, revnum),
                marks |-> Append(br.marks, mark)]
    IN [branches |-> Put(b, branch, rec),
        resetBranches |->
            IF comment.kind = "delete"
            THEN [x \in (DOMAIN rb) \ {branch} |-> rb[x]]
            ELSE Put(rb, branch, old(rb) \o bk \o cmd),
        deletedBranches |->
            IF comment.kind = "delete"
            THEN (IF branch \notin DOMAIN rb THEN Put(db, branch, old(db) \o bk \o cmd) ELSE db)
            ELSE [x \in (DOMAIN db) \ {branch} |-> db[x]]]

\* Repository::resetBranch: the registry and the two pending buffers it leaves
resetBranch(b, rb, db, branch, revnum, mark, resetTo, comment) ==
    LET br == Br(b, branch)
        bk == backupCmd(br, branch, revnum, comment)
        cmd == <<ResetCmd(BranchRef(branch), resetTo),
                 ProgressCmd(revnum, branch, mark, comment)>>
        old(m) == IF branch \in DOMAIN m THEN m[branch] ELSE <<>>
    IN [branches |-> Put(b, branch, ResetRecord(br, revnum, mark)),
        resetBranches |->
            IF comment.kind = "delete"
            THEN [x \in (DOMAIN rb) \ {branch} |-> rb[x]]
            ELSE Put(rb, branch, old(rb) \o bk \o cmd),
        deletedBranches |->
            IF comment.kind = "delete" /\ branch \notin DOMAIN rb
            THEN Put(db, branch, old(db) \o bk \o cmd)
            ELSE db]

\* ------------------------------------------------------------ process handle
\* a variant of closeFastImport that writes the checkpoint whatever the state
\* of the child
closeFastImport_AlwaysCheckpoint(cache, running, started, repo, died) ==
    [cache |-> RemoveOne(cache, repo),
     running |-> [running EXCEPT ![repo] = running[repo] /\ ~died],
     started |-> [started EXCEPT ![repo] = FALSE],
     writes |-> <<CheckpointCmd>>]

\* a variant of closeFastImport that leaves processHasStarted as it is
closeFastImport_KeepsStarted(cache, running, started, repo, died) ==
    [cache |-> RemoveOne(cache, repo),
     running |-> [running EXCEPT ![repo] = running[repo] /\ ~died],
     started |-> started,
     writes |-> IF running[repo] THEN <<CheckpointCmd>> ELSE <<>>]

\* Repository::closeFastImport of repository repo: the cache and the flags it
\* leaves and what it writes to the child.  died: the child exited within the
\* waits of lines 285-288 (when it did not, the code warns and goes on).
closeFastImport(cache, running, started, repo, died) ==
    [cache |-> RemoveOne(cache, repo),
     running |-> [running EXCEPT ![repo] = running[repo] /\ ~died],
     started |-> [started EXCEPT ![repo] = FALSE],
     writes |-> IF running[repo] THEN <<CheckpointCmd>> ELSE <<>>]

\* a variant of touch that does not remove the repository first
touch_NoRemove(cache, repo) ==
    LET k == Max(0, Len(cache) - (maxSimultaneousProcesses - 1))
    IN [cache |-> Append(SubSeq(cache, k + 1, Len(cache)), repo),
        victims |-> SubSeq(cache, 1, k)]

\* a variant of touch that evicts from the back of the list
touch_EvictNewest(cache, repo) ==
    LET c == RemoveOne(cache, repo)
        k == Max(0, Len(c) - (maxSimultaneousProcesses - 1))
    IN [cache |-> Append(SubSeq(c, 1, Len(c) - k), repo),
        victims |-> SubSeq(c, Len(c) - k + 1, Len(c))]

\* ProcessCache::touch: the list it leaves and the repositories it closed, in
\* the order it closed them
touch(cache, repo) ==
    LET c == RemoveOne(cache, repo)
        k == Max(0, Len(c) - (maxSimultaneousProcesses - 1))
    IN [cache |-> Append(SubSeq(c, k + 1, Len(c)), repo),
        victims |-> SubSeq(c, 1, k)]

\* the closeFastImport calls of touch on the repositories of victims, one
\* after the other; stuck holds the repositories whose child does not exit
RECURSIVE closeVictims(_, _, _, _)
closeVictims(victims, running, started, stuck) ==
    IF victims = <<>>
    THEN [running |-> running, started |-> started, events |-> <<>>]
    ELSE LET c == closeFastImport(<<>>, running, started, victims[1], victims[1] \notin stuck)
             rest == closeVictims(Tail(victims), c.running, c.started, stuck)
         IN [running |-> rest.running,
             started |-> rest.started,
             events |-> <<[e |-> "close", repo |-> victims[1], writes |-> c.writes]>>
                        \o rest.events]

\* a variant of reloadBranches that skips only the empty records
RECURSIVE reloadBranches_Tombstones(_, _)
reloadBranches_Tombstones(b, ord) ==
    IF ord = <<>>
    THEN <<>>
    ELSE LET br == b[ord[1]]
         IN (IF br.marks = <<>>
             THEN <<>>
             ELSE <<ResetCmd(BranchRef(ord[1]), FromMark(Last(br.marks))),
                    ReloadedCmd(ord[1])>>)
            \o reloadBranches_Tombstones(b, Tail(ord))

\* Repository::reloadBranches, visiting the registry's keys in the order ord
\* (options.add_metadata_notes is off: no reset of refs/notes/commits)
RECURSIVE reloadBranches(_, _)
reloadBranches(b, ord) ==
    IF ord = <<>>
    THEN <<>>
    ELSE LET br == b[ord[1]]
         IN (IF br.marks = <<>> \/ Last(br.marks) = 0
             THEN <<>>
             ELSE <<ResetCmd(BranchRef(ord[1]), FromMark(Last(br.marks))),
                    ReloadedCmd(ord[1])>>)
            \o reloadBranches(b, Tail(ord))

\* the repositories whose child does not exit when closed: Spec, SpecMarks
\* and SpecIncr drive one repository, whose touch closes no other
NoneStuck == {}

\* Repository::startFastImport for repository repo whose registry is b; stuck
\* holds the repositories whose child does not exit when touch closes it
startFastImport(repo, b, ord, stuck) ==
    LET t == touch(processCache, repo)
        v == closeVictims(t.victims, fastImportRunning, processHasStarted, stuck)
        mustStart == ~v.running[repo]
        fatal == mustStart /\ v.started[repo]
    IN [cache |-> t.cache,
        didStart |-> mustStart /\ ~fatal,
        fatal |-> fatal,
        running |-> IF fatal THEN v.running ELSE [v.running EXCEPT ![repo] = TRUE],
        started |-> IF mustStart THEN [v.started EXCEPT ![repo] = TRUE] ELSE v.started,
        writes |-> IF mustStart /\ ~fatal THEN reloadBranches(b, ord) ELSE <<>>,
        events |-> v.events \o <<[e |-> "insert", repo |-> repo, writes |-> <<>>]>>
                   \o (IF mustStart /\ ~fatal
                       THEN <<[e |-> "start", repo |-> repo, writes |-> <<>>]>>
                       ELSE <<>>)]

\* the process variables and the log after a start s that then wrote cmds
Started(s, cmds) ==
    /\ processCache' = s.cache
    /\ fastImportRunning' = s.running
    /\ processHasStarted' = s.started
    /\ UNCHANGED <<procEvents, touched, childLife>>
    /\ out' = (IF s.fatal THEN <<>> ELSE s.writes \o cmds)
    /\ logfile' = [exists |-> logfile.exists \/ s.didStart,
                   lines |-> logfile.lines \o
                             SelectSeq(IF s.fatal THEN <<>> ELSE s.writes \o cmds, IsProgressOp)]

\* ------------------------------------------------------------ construction
NoFile == [exists |-> FALSE, lines |-> <<>>]
NoTxn == [open |-> FALSE, branch |-> "", revnum |-> 0, files |-> <<>>, committed |-> FALSE,
          merges |-> <<>>, manufactured |-> FALSE, parentmark |-> 0]
NoOps == [r \in Refs |-> <<>>]

\* Repository::Repository
Constructed(rules) ==
    /\ rev = 1
    /\ svnRules = rules
    /\ branches = ConstructedBranches(rules)
    /\ notes = [r \in Refs |-> ""]
    /\ last_commit_mark = 0
    /\ next_file_mark = maxMark
    /\ outstandingTransactions = 0
    /\ commitCount = 0
    /\ resetBranches = EmptyMap
    /\ deletedBranches = EmptyMap
    /\ txns = [t \in 1..MaxTxn |-> NoTxn]
    /\ processCache = <<>>
    /\ fastImportRunning = [r \in Repos |-> FALSE]
    /\ processHasStarted = [r \in Repos |-> FALSE]
    /\ procEvents = <<>>
    /\ touched = <<>>
    /\ childLife = [r \in Repos |-> "never"]
    /\ out = <<>>
    /\ halt = "none"
    /\ ops = NoOps
    /\ opsFlushed = FALSE
    /\ commitMarks = {}
    /\ blobMarks = {}
    /\ blobSince = {}
    /\ blobHeaders = {}

Init ==
    /\ Constructed({})
    /\ logfile = NoFile
    /\ bkup = NoFile
    /\ marksfile = [exists |-> TRUE, lines |-> <<>>]
    /\ cutoff = 0
    /\ retval = 0
    /\ pc = "run"
    /\ origlog = NoFile
    /\ origcutoff = 0

Running == pc = "run" /\ halt = "none"

\* the calls on a ref since the pending buffers were last empty
OpsNow == IF opsFlushed THEN NoOps ELSE ops
\* an operation other than a branch operation or a flush leaves them as they are
KeepOps == ops' = OpsNow /\ opsFlushed' = FALSE
NoteOp(ref, op, src, br) ==
    [OpsNow EXCEPT ![ref] = Append(@, [op |-> op, src |-> src, live |-> IsLive(br),
                                       created |-> br.created])]

\* ------------------------------------------------------- branch operations
\* a variant of createBranch that copies the note before it looks at the mark
createBranchNote_BeforeCheck(n, branch, branchFrom, mark) ==
    [n EXCEPT ![branch] = n[branchFrom]]

\* Repository::createBranch lines 370-392: the notes it leaves; the exception
\* for mark -1 is thrown before the note of the source is copied
createBranchNote(n, branch, branchFrom, mark) ==
    IF mark = -1 THEN n ELSE [n EXCEPT ![branch] = n[branchFrom]]

\* Repository::createBranch
createBranch(branch, branchFrom, branchRevNum) ==
    /\ Running
    /\ RoomFor(branches)
    /\ Len(OpsNow[branch]) < MaxOps
    /\ LET mf == markFrom(branches, branchFrom, branchRevNum, FromBranchDesc(branchFrom))
           mark == mf.mark
           branchFromRef == IF mark = 0 THEN FromRef(branchFrom) ELSE FromMark(mark)
           desc == IF mark = 0 THEN [mf.desc EXCEPT !.unknown = TRUE] ELSE mf.desc
           b2 == Put(mf.branches, branch, Br(mf.branches, branch))
           r == resetBranch(b2, resetBranches, deletedBranches, branch, rev, mark,
                            branchFromRef, desc)
       IN /\ notes' = createBranchNote(notes, branch, branchFrom, mark)
          /\ IF mark = -1
             THEN /\ halt' = "fatal"
                  /\ branches' = mf.branches
                  /\ KeepOps
                  /\ UNCHANGED <<resetBranches, deletedBranches>>
             ELSE /\ halt' = halt
                  /\ branches' = r.branches
                  /\ resetBranches' = r.resetBranches
                  /\ deletedBranches' = r.deletedBranches
                  /\ ops' = NoteOp(branch, "create", branchFrom, Br(branches, branch))
                  /\ opsFlushed' = FALSE
    /\ out' = <<>>
    /\ UNCHANGED <<rev, svnRules, last_commit_mark, next_file_mark,
                   outstandingTransactions, commitCount, txns, logfile>>
    /\ UNCHANGED <<procVars, fileVars, markHist>>

\* a variant of deleteBranch without the early return for refs/heads/master
deleteBranch_NoMasterGuard(branch) ==
    /\ Running
    /\ RoomFor(branches)
    /\ Len(OpsNow[branch]) < MaxOps
    /\ ops' = NoteOp(branch, "delete", "", Br(branches, branch))
    /\ opsFlushed' = FALSE
    /\ LET r == resetBranch(branches, resetBranches, deletedBranches, branch, rev,
                            0, null_sha, DeleteComment)
       IN /\ branches' = r.branches
          /\ resetBranches' = r.resetBranches
          /\ deletedBranches' = r.deletedBranches
    /\ out' = <<>>
    /\ UNCHANGED <<rev, svnRules, notes, last_commit_mark, next_file_mark,
                   outstandingTransactions, commitCount, txns, logfile, halt>>
    /\ UNCHANGED <<procVars, fileVars, markHist>>

\* Repository::deleteBranch
deleteBranch(branch) ==
    /\ Running
    /\ RoomFor(branches)
    /\ Len(OpsNow[branch]) < MaxOps
    /\ ops' = NoteOp(branch, "delete", "", Br(branches, branch))
    /\ opsFlushed' = FALSE
    /\ IF branch = Master
       THEN UNCHANGED <<branches, resetBranches, deletedBranches>>
       ELSE LET r == resetBranch(branches, resetBranches, deletedBranches, branch, rev,
                                 0, null_sha, DeleteComment)
            IN /\ branches' = r.branches
               /\ resetBranches' = r.resetBranches
               /\ deletedBranches' = r.deletedBranches
    /\ out' = <<>>
    /\ UNCHANGED <<rev, svnRules, notes, last_commit_mark, next_file_mark,
                   outstandingTransactions, commitCount, txns, logfile, halt>>
    /\ UNCHANGED <<procVars, fileVars, markHist>>

\* a variant of the flush that writes the pending resets first
commitWrites_ResetsFirst(db, dord, rb, rord) == Concat(rord, rb) \o Concat(dord, db)

\* Repository::commit lines 475-478: the bytes of the flush, the keys of the
\* two buffers visited in the orders dord and rord
commitWrites(db, dord, rb, rord) == Concat(dord, db) \o Concat(rord, rb)

\* Repository::commit: flush the pending deletions, then the pending resets
RepoCommit ==
    /\ Running
    /\ IF deletedBranches = EmptyMap /\ resetBranches = EmptyMap
       THEN /\ out' = <<>>
            /\ KeepOps
            /\ UNCHANGED <<procVars, logfile, halt>>
       ELSE \E ord \in Orders(DOMAIN branches),
               dord \in Orders(DOMAIN deletedBranches),
               rord \in Orders(DOMAIN resetBranches) :
               LET s == startFastImport(This, branches, ord, NoneStuck)
               IN /\ Started(s, commitWrites(deletedBranches, dord, resetBranches, rord))
                  /\ halt' = IF s.fatal THEN "fatal" ELSE halt
                  /\ ops' = OpsNow
                  /\ opsFlushed' = TRUE
    /\ deletedBranches' = EmptyMap
    /\ resetBranches' = EmptyMap
    /\ UNCHANGED <<rev, svnRules, notes, branches, last_commit_mark, next_file_mark,
                   outstandingTransactions, commitCount, txns>>
    /\ UNCHANGED <<fileVars, markHist>>

\* the driver moves on to the next SVN revision once the transactions of
\* this one are gone and the pending resets are flushed
NextRevision ==
    /\ Running
    /\ rev < MaxRev
    /\ \A t \in 1..MaxTxn : ~txns[t].open
    /\ deletedBranches = EmptyMap /\ resetBranches = EmptyMap
    /\ rev' = rev + 1
    /\ out' = <<>>
    /\ ops' = NoOps
    /\ opsFlushed' = FALSE
    /\ UNCHANGED <<svnRules, notes, branches, last_commit_mark, next_file_mark,
                   outstandingTransactions, commitCount, resetBranches,
                   deletedBranches, txns, logfile, halt>>
    /\ UNCHANGED <<procVars, fileVars, markHist>>

\* ------------------------------------------------------------ transactions
\* Repository::newTransaction
newTransaction(t, branch) ==
    /\ Running
    /\ ~txns[t].open
    /\ \A u \in 1..MaxTxn : u < t => txns[u].open
    /\ txns' = [txns EXCEPT ![t] = [open |-> TRUE, branch |-> branch, revnum |-> rev,
                                    files |-> <<>>, committed |-> FALSE,
                                    merges |-> <<>>, manufactured |-> FALSE,
                                    parentmark |-> 0]]
    /\ commitCount' = (commitCount + 1) % commit_interval
    /\ IF (commitCount + 1) % commit_interval = 0
       THEN \E ord \in Orders(DOMAIN branches) :
               LET s == startFastImport(This, branches, ord, NoneStuck)
               IN /\ Started(s, <<CheckpointCmd>>)
                  /\ halt' = IF s.fatal THEN "fatal" ELSE halt
       ELSE /\ out' = <<>>
            /\ UNCHANGED <<procVars, logfile, halt>>
    /\ outstandingTransactions' = outstandingTransactions + 1
    /\ UNCHANGED <<rev, svnRules, notes, branches, last_commit_mark, next_file_mark,
                   resetBranches, deletedBranches>>
    /\ KeepOps
    /\ UNCHANGED <<fileVars, markHist>>

\* a variant of forgetTransaction that resets the blob counter every time
forgetTransaction_AlwaysReset(outstanding, nfm) == maxMark

\* Repository::forgetTransaction: the blob counter it leaves
forgetTransaction(outstanding, nfm) == IF outstanding - 1 = 0 THEN maxMark ELSE nfm

\* Repository::Transaction::~Transaction
DeleteTransaction(t) ==
    /\ Running
    /\ txns[t].open
    /\ txns' = [txns EXCEPT ![t] = NoTxn]
    /\ outstandingTransactions' = outstandingTransactions - 1
    /\ next_file_mark' = forgetTransaction(outstandingTransactions, next_file_mark)
    /\ blobSince' = IF outstandingTransactions - 1 = 0 THEN {} ELSE blobSince
    /\ blobHeaders' = IF next_file_mark' = maxMark THEN {} ELSE blobHeaders
    /\ out' = <<>>
    /\ UNCHANGED <<rev, svnRules, notes, branches, last_commit_mark, commitCount,
                   resetBranches, deletedBranches, logfile, halt,
                   commitMarks, blobMarks>>
    /\ KeepOps
    /\ UNCHANGED <<procVars, fileVars>>

\* a variant of the assertion in addFile that is off by one
addFileAssert_OffByOne(mark, lcm) == mark > lcm

\* Repository::Transaction::addFile line 755: Q_ASSERT on the mark handed out
addFileAssert(mark, lcm) == mark > lcm + 1

\* Repository::Transaction::addFile
addFile(t) ==
    /\ Running
    /\ txns[t].open /\ ~txns[t].committed
    /\ Len(txns[t].files) < MaxFiles
    /\ LET mark == next_file_mark
       IN /\ next_file_mark' = next_file_mark - 1
          /\ IF ~addFileAssert(mark, last_commit_mark)
             THEN /\ halt' = "assert"
                  /\ out' = <<>>
                  /\ UNCHANGED <<txns, procVars, logfile, blobMarks, blobSince, blobHeaders>>
             ELSE /\ txns' = [txns EXCEPT ![t].files = Append(@, mark)]
                  /\ blobMarks' = blobMarks \cup {mark}
                  /\ blobSince' = blobSince \cup {mark}
                  /\ IF dry_run
                     THEN /\ out' = <<>>
                          /\ UNCHANGED <<procVars, logfile, halt>>
                     ELSE \E ord \in Orders(DOMAIN branches) :
                             LET s == startFastImport(This, branches, ord, NoneStuck)
                             IN /\ Started(s, <<BlobCmd(mark)>>)
                                /\ halt' = IF s.fatal THEN "fatal" ELSE halt
                  /\ blobHeaders' = blobHeaders \cup
                         {out'[i].mark : i \in {j \in 1..Len(out') : out'[j].op = "blob"}}
    /\ UNCHANGED <<rev, svnRules, notes, branches, last_commit_mark, outstandingTransactions,
                   commitCount, resetBranches, deletedBranches, commitMarks>>
    /\ KeepOps
    /\ UNCHANGED fileVars

\* a variant of the assertion in commit that compares against the constant
\* maxMark where the code compares against next_file_mark
commitAssert_AgainstMaxMark(mark, nfm) == mark < maxMark - 1

\* Repository::Transaction::commit line 823: Q_ASSERT on the mark handed out
commitAssert(mark, nfm) == mark < nfm - 1

\* Repository::Transaction::commit lines 832-846: the record it leaves
CommitRecord(br, revnum, mark) ==
    [created |-> IF br.created # 0 /\ br.marks # <<>> /\ Last(br.marks) # 0
                 THEN br.created ELSE revnum,
     commits |-> Append(br.commits, revnum),
     marks |-> Append(br.marks, mark)]

\* the last entry of s that is not 0, 0 when there is none
RECURSIVE LastNonZero(_)
LastNonZero(s) ==
    IF s = <<>> THEN 0
    ELSE IF Last(s) # 0 THEN Last(s)
    ELSE LastNonZero(SubSeq(s, 1, Len(s) - 1))

\* a variant of the parent that looks behind the entries with mark 0
parentMark_LastNonZero(br) == IF br.created # 0 THEN LastNonZero(br.marks) ELSE 0

\* Repository::Transaction::commit lines 832-835: the natural parent, 0 for none
parentMark(br) ==
    IF br.created # 0 /\ br.marks # <<>> /\ Last(br.marks) # 0 THEN Last(br.marks) ELSE 0

RECURSIVE InsertSorted(_, _)
InsertSorted(s, x) ==
    IF s = <<>> THEN <<x>>
    ELSE IF x <= s[1] THEN <<x>> \o s
    ELSE <<s[1]>> \o InsertSorted(Tail(s), x)

\* a variant of the sort that takes the greatest first
RECURSIVE qSort_Descending(_)
qSort_Descending(s) ==
    IF s = <<>> THEN <<>>
    ELSE LET r == qSort_Descending(Tail(s))
             k == Cardinality({j \in 1..Len(r) : r[j] > s[1]})
         IN SubSeq(r, 1, k) \o <<s[1]>> \o SubSeq(r, k + 1, Len(r))

\* qSort: the sequence in ascending order
RECURSIVE qSort(_)
qSort(s) == IF s = <<>> THEN <<>> ELSE InsertSorted(qSort(Tail(s)), s[1])

\* a variant of the loop that lets one parent more through
RECURSIVE mergeLoop_OffByOne(_, _, _)
mergeLoop_OffByOne(merges, parentmark, i) ==
    IF merges = <<>> THEN [marks |-> <<>>, warned |-> FALSE]
    ELSE IF merges[1] = parentmark THEN mergeLoop_OffByOne(Tail(merges), parentmark, i)
    ELSE IF i + 1 > maxParents + 1 THEN [marks |-> <<>>, warned |-> TRUE]
    ELSE LET r == mergeLoop_OffByOne(Tail(merges), parentmark, i + 1)
         IN [marks |-> <<merges[1]>> \o r.marks, warned |-> r.warned]

\* Repository::Transaction::commit lines 872-894: the marks the loop emits, i
\* parents counted so far
RECURSIVE mergeLoop(_, _, _)
mergeLoop(merges, parentmark, i) ==
    IF merges = <<>> THEN [marks |-> <<>>, warned |-> FALSE]
    ELSE IF merges[1] = parentmark THEN mergeLoop(Tail(merges), parentmark, i)
    ELSE IF i + 1 > maxParents THEN [marks |-> <<>>, warned |-> TRUE]
    ELSE LET r == mergeLoop(Tail(merges), parentmark, i + 1)
         IN [marks |-> <<merges[1]>> \o r.marks, warned |-> r.warned]

\* Repository::Transaction::commit lines 859-895: the merge lines, the
\* description for the progress line, and the merges the transaction keeps
commitMerges(merges, parentmark, manufactured) ==
    IF manufactured /\ Len(merges) > 1
    THEN LET sorted == qSort(merges)
         IN [lines |-> <<Last(sorted)>>,
             desc |-> <<>>,
             merges |-> SubSeq(sorted, 1, Len(sorted) - 1),
             warned |-> FALSE]
    ELSE LET r == mergeLoop(merges, parentmark, IF parentmark # 0 THEN 1 ELSE 0)
         IN [lines |-> r.marks, desc |-> r.marks, merges |-> merges, warned |-> r.warned]

RECURSIVE MergeCmds(_)
MergeCmds(marks) ==
    IF marks = <<>> THEN <<>> ELSE <<MergeCmd(marks[1])>> \o MergeCmds(Tail(marks))

RECURSIVE ModifyCmds(_)
ModifyCmds(files) ==
    IF files = <<>> THEN <<>> ELSE <<ModifyCmd(files[1])>> \o ModifyCmds(Tail(files))

\* Repository::Transaction::commit
TransactionCommit(t) ==
    /\ Running
    /\ txns[t].open /\ ~txns[t].committed
    /\ RoomFor(branches)
    /\ \E ord \in Orders(DOMAIN branches) :
          LET s == startFastImport(This, branches, ord, NoneStuck)
              branch == txns[t].branch
              revnum == txns[t].revnum
              mark == last_commit_mark + 1
              br == Br(branches, branch)
              cm == commitMerges(txns[t].merges, parentMark(br), txns[t].manufactured)
          IN /\ last_commit_mark' = mark
             /\ IF s.fatal \/ ~commitAssert(mark, next_file_mark)
                THEN /\ halt' = IF s.fatal THEN "fatal" ELSE "assert"
                     /\ Started(s, <<>>)
                     /\ UNCHANGED <<branches, txns, commitMarks>>
                ELSE /\ halt' = halt
                     /\ branches' = Put(branches, branch, CommitRecord(br, revnum, mark))
                     /\ txns' = [txns EXCEPT ![t].committed = TRUE, ![t].merges = cm.merges,
                                             ![t].parentmark = parentMark(br)]
                     /\ commitMarks' = commitMarks \cup {mark}
                     /\ Started(s, <<CommitCmd(branch, mark)>>
                                   \o MergeCmds(cm.lines)
                                   \o ModifyCmds(txns[t].files)
                                   \o <<ProgressCmd(revnum, branch, mark,
                                                    IF cm.desc = <<>> THEN NoComment
                                                    ELSE MergeDesc(cm.desc))>>)
    /\ UNCHANGED <<rev, svnRules, notes, next_file_mark, outstandingTransactions, commitCount,
                   resetBranches, deletedBranches, blobMarks, blobSince, blobHeaders>>
    /\ KeepOps
    /\ UNCHANGED fileVars

NoOpenTransaction == \A t \in 1..MaxTxn : ~txns[t].open

\* Spec: the driver of one repository.  Per revision it issues branch
\* operations and flushes, and opens, commits and destroys one transaction at a
\* time; branch operations are issued while no transaction is open.
Next ==
    \/ \E branch \in Refs, branchFrom \in Refs, branchRevNum \in 1..MaxRev :
          /\ branchRevNum <= rev
          /\ NoOpenTransaction
          /\ createBranch(branch, branchFrom, branchRevNum)
    \/ \E branch \in Refs : NoOpenTransaction /\ deleteBranch(branch)
    \/ NoOpenTransaction /\ RepoCommit
    \/ NextRevision
    \/ \E branch \in Refs : newTransaction(1, branch)
    \/ TransactionCommit(1)
    \/ DeleteTransaction(1)

Spec == Init /\ [][Next]_vars

\* SpecMarks: the mark allocator under transactions that overlap
NextMarks ==
    \/ \E t \in 1..MaxTxn : newTransaction(t, Master)
    \/ \E t \in 1..MaxTxn : addFile(t)
    \/ \E t \in 1..MaxTxn : TransactionCommit(t)
    \/ \E t \in 1..MaxTxn : DeleteTransaction(t)

SpecMarks == Init /\ [][NextMarks]_vars

\* ------------------------------------------------------------------- notes
\* the note texts of the model
Notes == {"", "note"}

\* Repository::setBranchNote
setBranchNote(branch, noteText) ==
    /\ Running
    /\ notes' = IF branch \in DOMAIN branches
                THEN [notes EXCEPT ![branch] = noteText]
                ELSE notes
    /\ out' = <<>>
    /\ UNCHANGED <<rev, svnRules, branches, last_commit_mark, next_file_mark,
                   outstandingTransactions, commitCount, resetBranches,
                   deletedBranches, txns, logfile, halt>>
    /\ KeepOps
    /\ UNCHANGED <<procVars, fileVars, markHist>>

\* SpecNotes: branch operations on a registry whose branches carry notes; the
\* rule set may declare the topic branch
InitNotes ==
    \E rules \in SUBSET {Topic} :
        /\ Constructed(rules)
        /\ logfile = NoFile
        /\ bkup = NoFile
        /\ marksfile = [exists |-> TRUE, lines |-> <<>>]
        /\ cutoff = 0
        /\ retval = 0
        /\ pc = "run"
        /\ origlog = NoFile
        /\ origcutoff = 0

NextNotes ==
    \/ \E branch \in Refs, noteText \in Notes : setBranchNote(branch, noteText)
    \/ \E branch \in Refs, branchFrom \in Refs, branchRevNum \in 1..MaxRev :
          /\ branchRevNum <= rev
          /\ NoOpenTransaction
          /\ createBranch(branch, branchFrom, branchRevNum)
    \/ \E branch \in Refs : NoOpenTransaction /\ deleteBranch(branch)
    \/ \E branch \in Refs : newTransaction(1, branch)
    \/ TransactionCommit(1)
    \/ DeleteTransaction(1)

SpecNotes == InitNotes /\ [][NextNotes]_vars

\* ------------------------------------------------------------------ merges
\* Repository::Transaction::setLog; manufactured: the log contains
\* "This commit was manufactured by cvs2svn"
setLog(t, manufactured) ==
    /\ Running
    /\ txns[t].open /\ ~txns[t].committed
    /\ txns' = [txns EXCEPT ![t].manufactured = manufactured]
    /\ out' = <<>>
    /\ UNCHANGED <<rev, svnRules, notes, branches, last_commit_mark, next_file_mark,
                   outstandingTransactions, commitCount, resetBranches,
                   deletedBranches, logfile, halt>>
    /\ KeepOps
    /\ UNCHANGED <<procVars, fileVars, markHist>>

\* Repository::Transaction::noteCopyFromBranch
noteCopyFromBranch(t, branchFrom, branchRevNum) ==
    /\ Running
    /\ txns[t].open /\ ~txns[t].committed
    /\ IF txns[t].branch = branchFrom
       THEN UNCHANGED <<branches, txns>>
       ELSE LET mf == markFrom(branches, branchFrom, branchRevNum, NoComment)
            IN /\ branches' = mf.branches
               /\ txns' = IF mf.mark = -1 \/ mf.mark = 0
                             \/ \E i \in 1..Len(txns[t].merges) : txns[t].merges[i] = mf.mark
                          THEN txns
                          ELSE [txns EXCEPT ![t].merges = Append(@, mf.mark)]
    /\ out' = <<>>
    /\ UNCHANGED <<rev, svnRules, notes, last_commit_mark, next_file_mark,
                   outstandingTransactions, commitCount, resetBranches,
                   deletedBranches, logfile, halt>>
    /\ KeepOps
    /\ UNCHANGED <<procVars, fileVars, markHist>>

\* the registry an earlier part of the run left: the source branch with a
\* commit at each of the revisions 1..n, and master as constructed, reset to
\* one of these commits, or with a commit of its own
MergeRegistry(n, parent) ==
    [r \in {Master, Topic} |->
        IF r = Topic
        THEN [created |-> 1, commits |-> [i \in 1..n |-> i], marks |-> [i \in 1..n |-> i]]
        ELSE IF parent = 0
        THEN [created |-> 1, commits |-> <<>>, marks |-> <<>>]
        ELSE [created |-> n, commits |-> <<n>>, marks |-> <<parent>>]]

\* SpecMerge: transactions that stage merge parents and commit, at the
\* revision after the ones of the registry
InitMerge ==
    \E n \in 1..(maxParents + 1), parent \in 0..(maxParents + 2) :
        /\ parent <= n + 1
        /\ n + (IF parent = 0 THEN 0 ELSE 1) < MaxEntries
        /\ rev = n + 1
        /\ svnRules = {}
        /\ branches = MergeRegistry(n, parent)
        /\ notes = [r \in Refs |-> ""]
        /\ last_commit_mark = Max(n, parent)
        /\ next_file_mark = maxMark
        /\ outstandingTransactions = 0
        /\ commitCount = 0
        /\ resetBranches = EmptyMap
        /\ deletedBranches = EmptyMap
        /\ txns = [t \in 1..MaxTxn |-> NoTxn]
        /\ processCache = <<>>
        /\ fastImportRunning = [r \in Repos |-> FALSE]
        /\ processHasStarted = [r \in Repos |-> FALSE]
        /\ procEvents = <<>>
        /\ touched = <<>>
        /\ childLife = [r \in Repos |-> "never"]
        /\ out = <<>>
        /\ halt = "none"
        /\ ops = NoOps
        /\ opsFlushed = FALSE
        /\ commitMarks = 1..Max(n, parent)
        /\ blobMarks = {}
        /\ blobSince = {}
        /\ blobHeaders = {}
        /\ logfile = NoFile
        /\ bkup = NoFile
        /\ marksfile = [exists |-> TRUE, lines |-> <<>>]
        /\ cutoff = 0
        /\ retval = 0
        /\ pc = "run"
        /\ origlog = NoFile
        /\ origcutoff = 0

NextMerge ==
    \/ \E branch \in Refs : newTransaction(1, branch)
    \/ \E manufactured \in BOOLEAN : setLog(1, manufactured)
    \/ \E branchFrom \in Refs, branchRevNum \in 1..(maxParents + 1) :
          noteCopyFromBranch(1, branchFrom, branchRevNum)
    \/ TransactionCommit(1)
    \/ DeleteTransaction(1)

SpecMerge == InitMerge /\ [][NextMerge]_vars

\* ------------------------------------------------------------ process cache
\* the record of the start and close calls after the calls of events: a start
\* that follows a close counts as a restart
RECURSIVE LifeAfter(_, _)
LifeAfter(life, events) ==
    IF events = <<>> THEN life
    ELSE LET ev == events[1]
             l1 == IF ev.e = "close" THEN [life EXCEPT ![ev.repo] = "closed"]
                   ELSE IF ev.e = "start"
                   THEN [life EXCEPT ![ev.repo] = IF @ = "never" THEN "started" ELSE "restarted"]
                   ELSE life
         IN LifeAfter(l1, Tail(events))

\* an operation of repository repo that calls startFastImport; the registries
\* hold no live branch, so that reloadBranches writes nothing
StartFastImport(repo, stuck) ==
    /\ Running
    /\ \E ord \in Orders(DOMAIN branches) :
          LET s == startFastImport(repo, branches, ord, stuck)
          IN /\ processCache' = s.cache
             /\ fastImportRunning' = s.running
             /\ processHasStarted' = s.started
             /\ procEvents' = s.events
             /\ touched' = Append(RemoveOne(touched, repo), repo)
             /\ childLife' = LifeAfter(childLife, s.events)
             /\ halt' = IF s.fatal THEN "fatal" ELSE halt
             /\ out' = IF repo = This THEN s.writes ELSE <<>>
             /\ logfile' = IF repo = This
                           THEN [exists |-> logfile.exists \/ s.didStart,
                                 lines |-> logfile.lines \o SelectSeq(s.writes, IsProgressOp)]
                           ELSE logfile
    /\ UNCHANGED <<rev, svnRules, notes, branches, last_commit_mark, next_file_mark,
                   outstandingTransactions, commitCount, resetBranches,
                   deletedBranches, txns, ops, opsFlushed>>
    /\ UNCHANGED <<fileVars, markHist>>

\* the last operation was a closeFastImport of repository repo
ClosedLast(repo) ==
    procEvents # <<>> /\ Last(procEvents).e = "close" /\ Last(procEvents).repo = repo

\* Repository::closeFastImport of repository repo, called by its destructor
CloseFastImport(repo) ==
    /\ Running
    /\ \E died \in BOOLEAN :
          LET c == closeFastImport(processCache, fastImportRunning, processHasStarted,
                                   repo, died)
          IN /\ processCache' = c.cache
             /\ fastImportRunning' = c.running
             /\ processHasStarted' = c.started
             /\ procEvents' = (IF ClosedLast(repo) THEN <<Last(procEvents)>> ELSE <<>>)
                              \o <<[e |-> "close", repo |-> repo, writes |-> c.writes]>>
             /\ out' = IF repo = This THEN c.writes ELSE <<>>
    /\ UNCHANGED <<rev, svnRules, notes, branches, last_commit_mark, next_file_mark,
                   outstandingTransactions, commitCount, resetBranches,
                   deletedBranches, txns, ops, opsFlushed, logfile, halt, touched>>
    /\ childLife' = LifeAfter(childLife, <<[e |-> "close", repo |-> repo, writes |-> <<>>]>>)
    /\ UNCHANGED <<fileVars, markHist>>

\* the child of repository repo exits on its own
ChildCrash(repo) ==
    /\ Running
    /\ fastImportRunning[repo]
    /\ fastImportRunning' = [fastImportRunning EXCEPT ![repo] = FALSE]
    /\ procEvents' = <<>>
    /\ out' = <<>>
    /\ UNCHANGED <<rev, svnRules, notes, branches, last_commit_mark, next_file_mark,
                   outstandingTransactions, commitCount, resetBranches,
                   deletedBranches, txns, ops, opsFlushed, logfile, halt,
                   processCache, processHasStarted, touched, childLife>>
    /\ UNCHANGED <<fileVars, markHist>>

\* SpecCache: the repositories of one run start, close and lose their children
NextCache ==
    \/ \E repo \in Repos, stuck \in SUBSET Repos : StartFastImport(repo, stuck)
    \/ \E repo \in Repos : CloseFastImport(repo)
    \/ \E repo \in Repos : ChildCrash(repo)

SpecCache == Init /\ [][NextCache]_vars

\* the "reloaded" lines of the log
Reloaded(lf) == Len(SelectSeq(lf.lines, LAMBDA c : c.op = "reloaded"))

\* SpecReload: one repository whose child is closed, lost and started again
\* while its branches are committed to and deleted
NextReload ==
    \/ \E branch \in Refs : NoOpenTransaction /\ deleteBranch(branch)
    \/ NoOpenTransaction /\ RepoCommit
    \/ \E branch \in Refs : newTransaction(1, branch)
    \/ TransactionCommit(1)
    \/ DeleteTransaction(1)
    \/ Reloaded(logfile) < MaxReloads /\ CloseFastImport(This)
    \/ Reloaded(logfile) < MaxReloads /\ ChildCrash(This)

SpecReload == Init /\ [][NextReload]_vars

\* ------------------------------------------------------ incremental recovery
\* lastValidMark lines 145-152: the mark a line of the marks file parses to;
\* a line is ":<num> <sha>", possibly without its colon or its space
ParseMark(line) == IF line.colon /\ line.space THEN line.num ELSE 0

\* a variant of the loop that stops at a duplicate or a lower mark the way it
\* stops at a gap
RECURSIVE ScanMarks_Break(_, _, _)
ScanMarks_Break(lines, i, prev_mark) ==
    IF i > Len(lines) THEN prev_mark
    ELSE LET mark == ParseMark(lines[i])
         IN IF mark = 0 THEN prev_mark
            ELSE IF mark = prev_mark THEN prev_mark
            ELSE IF mark < prev_mark THEN prev_mark
            ELSE IF mark > prev_mark + 1 THEN prev_mark
            ELSE ScanMarks_Break(lines, i + 1, mark)

\* lastValidMark lines 139-173: the loop over the lines, from line i on
RECURSIVE ScanMarks(_, _, _)
ScanMarks(lines, i, prev_mark) ==
    IF i > Len(lines) THEN prev_mark
    ELSE LET mark == ParseMark(lines[i])
         IN IF mark = 0 THEN 0
            ELSE IF mark = prev_mark THEN 0
            ELSE IF mark < prev_mark THEN 0
            ELSE IF mark > prev_mark + 1 THEN prev_mark
            ELSE ScanMarks(lines, i + 1, mark)

lastValidMark(mf) == IF ~mf.exists THEN 0 ELSE ScanMarks(mf.lines, 1, 0)

\* QRegExp progress("progress SVN r(\\d+) branch (.*) = :(\\d+)") on a line
\* cut at '#' and trimmed: the comment is dropped, other lines do not match
ProgressMatch(line) ==
    [matched |-> line.op = "progress",
     revnum |-> line.rev, branch |-> line.ref.name, mark |-> line.mark]

\* Repository::setupIncremental lines 233-237: the record after a progress line
RecoveredRecord(br, revnum, mark) ==
    [created |-> IF br.created = 0 \/ mark = 0 \/ br.marks = <<>> \/ Last(br.marks) = 0
                 THEN revnum ELSE br.created,
     commits |-> Append(br.commits, revnum),
     marks |-> Append(br.marks, mark)]

\* Repository::setupIncremental lines 195-238: the scan of the log from line i
\* on; pos is the number of lines before the line the scan stopped at
RECURSIVE ScanLog(_, _, _, _, _, _, _)
ScanLog(lines, i, cut, last_valid_mark, last_revnum, lcm, b) ==
    IF i > Len(lines)
    THEN [beyond |-> FALSE, pos |-> Len(lines), cutoff |-> cut,
          last_revnum |-> last_revnum, last_commit_mark |-> lcm, branches |-> b]
    ELSE LET m == ProgressMatch(lines[i])
         IN IF ~m.matched
            THEN ScanLog(lines, i + 1, cut, last_valid_mark, last_revnum, lcm, b)
            ELSE IF m.revnum >= cut
            THEN [beyond |-> TRUE, pos |-> i - 1, cutoff |-> cut,
                  last_revnum |-> last_revnum, last_commit_mark |-> lcm, branches |-> b]
            ELSE IF m.mark > last_valid_mark
            THEN [beyond |-> TRUE, pos |-> i - 1, cutoff |-> m.revnum,
                  last_revnum |-> last_revnum, last_commit_mark |-> lcm, branches |-> b]
            ELSE ScanLog(lines, i + 1, cut, last_valid_mark, m.revnum,
                         Max(lcm, m.mark),
                         Put(b, m.branch, RecoveredRecord(Br(b, m.branch), m.revnum, m.mark)))

\* a variant of setupIncremental that truncates the log after the line the
\* scan stopped at
setupIncremental_TruncAfter(lf, old, mf, cut, lcm, b) ==
    LET sc == ScanLog(lf.lines, 1, cut, lastValidMark(mf), 0, lcm, b)
    IN IF ~lf.exists
       THEN [retval |-> 1, cutoff |-> cut, logfile |-> lf, bkup |-> old,
             last_commit_mark |-> lcm, branches |-> b]
       ELSE IF sc.beyond
       THEN [retval |-> sc.cutoff, cutoff |-> sc.cutoff,
             logfile |-> [exists |-> TRUE, lines |-> SubSeq(lf.lines, 1, sc.pos + 1)],
             bkup |-> lf,
             last_commit_mark |-> sc.last_commit_mark, branches |-> sc.branches]
       ELSE [retval |-> sc.last_revnum + 1, cutoff |-> cut, logfile |-> lf,
             bkup |-> IF sc.last_revnum + 1 = cut THEN NoFile ELSE old,
             last_commit_mark |-> sc.last_commit_mark, branches |-> sc.branches]

\* Repository::setupIncremental: what it returns and leaves behind
setupIncremental(lf, old, mf, cut, lcm, b) ==
    LET sc == ScanLog(lf.lines, 1, cut, lastValidMark(mf), 0, lcm, b)
    IN IF ~lf.exists
       THEN [retval |-> 1, cutoff |-> cut, logfile |-> lf, bkup |-> old,
             last_commit_mark |-> lcm, branches |-> b]
       ELSE IF sc.beyond
       THEN [retval |-> sc.cutoff, cutoff |-> sc.cutoff,
             logfile |-> [exists |-> TRUE, lines |-> SubSeq(lf.lines, 1, sc.pos)],
             bkup |-> lf,
             last_commit_mark |-> sc.last_commit_mark, branches |-> sc.branches]
       ELSE [retval |-> sc.last_revnum + 1, cutoff |-> cut, logfile |-> lf,
             bkup |-> IF sc.last_revnum + 1 = cut THEN NoFile ELSE old,
             last_commit_mark |-> sc.last_commit_mark, branches |-> sc.branches]

\* Repository::restoreLog: the log file and the backup it leaves
restoreLog(lf, old) ==
    IF ~old.exists THEN [logfile |-> lf, bkup |-> old]
    ELSE [logfile |-> old, bkup |-> NoFile]

SetupIncremental ==
    /\ pc = "start"
    /\ LET r == setupIncremental(logfile, bkup, marksfile, cutoff, last_commit_mark, branches)
       IN /\ retval' = r.retval
          /\ cutoff' = r.cutoff
          /\ logfile' = r.logfile
          /\ bkup' = r.bkup
          /\ last_commit_mark' = r.last_commit_mark
          /\ branches' = r.branches
    /\ pc' = "setup"
    /\ UNCHANGED <<rev, svnRules, notes, next_file_mark, outstandingTransactions, commitCount,
                   resetBranches, deletedBranches, txns, out, marksfile, halt, ops,
                   opsFlushed, origlog, origcutoff>>
    /\ UNCHANGED <<procVars, markHist>>

RestoreLog ==
    /\ pc = "setup"
    /\ LET r == restoreLog(logfile, bkup)
       IN /\ logfile' = r.logfile
          /\ bkup' = r.bkup
    /\ pc' = "restored"
    /\ UNCHANGED <<rev, svnRules, notes, branches, last_commit_mark, next_file_mark,
                   outstandingTransactions, commitCount, resetBranches, deletedBranches,
                   txns, out, marksfile, cutoff, retval, halt, ops, opsFlushed, origlog,
                   origcutoff>>
    /\ UNCHANGED <<procVars, markHist>>

\* the files an earlier run may have left
SeqsUpTo(S, n) == UNION {[1..k -> S] : k \in 0..n}

OldLogLines ==
    {ProgressCmd(r, ref, m, IF m = 0 THEN DeleteComment ELSE NoComment) :
        r \in 1..MaxRev, ref \in Refs, m \in 0..MaxOldMark}
    \cup {ReloadedCmd(Master)}

\* an earlier run walked the revisions in ascending order
Ascending(lines) ==
    \A i, j \in 1..Len(lines) :
        (i < j /\ lines[i].op = "progress" /\ lines[j].op = "progress")
            => lines[i].rev <= lines[j].rev

OldLogFiles ==
    {NoFile} \cup {[exists |-> TRUE, lines |-> l] :
                      l \in {x \in SeqsUpTo(OldLogLines, MaxLogLen) : Ascending(x)}}

MarksLines ==
    {[colon |-> TRUE, space |-> TRUE, num |-> n] : n \in 1..MaxOldMark}
    \cup {[colon |-> TRUE, space |-> FALSE, num |-> 1]}

MarksFiles ==
    {NoFile} \cup {[exists |-> TRUE, lines |-> l] : l \in SeqsUpTo(MarksLines, MaxMarksLen)}

StaleLog == [exists |-> TRUE, lines |-> <<ReloadedCmd(Topic)>>]

InitIncr ==
    /\ Constructed({})
    /\ logfile \in OldLogFiles
    /\ bkup \in {NoFile, StaleLog}
    /\ marksfile \in MarksFiles
    /\ cutoff \in 1..(MaxRev + 2)
    /\ retval = 0
    /\ pc = "start"
    /\ origlog = logfile
    /\ origcutoff = cutoff

NextIncr ==
    \/ SetupIncremental
    \/ RestoreLog

SpecIncr == InitIncr /\ [][NextIncr]_vars

\* ======================================================================
\* Properties of the mark allocator (SpecMarks)

\* C1 as stated: in every state that did not abort on an assertion,
\* last_commit_mark + 1 < next_file_mark, also right after an addFile that
\* passed its assertion.
C1_StrictGap == halt = "none" => last_commit_mark + 1 < next_file_mark

\* C1: in every state that did not abort on an assertion the two counters have
\* not crossed, last_commit_mark + 1 <= next_file_mark; every blob mark handed
\* out since the blob counter was last reset is greater than
\* last_commit_mark + 1 was when it was handed out, hence greater than
\* next_file_mark; and the gap is strict while no blob mark is outstanding.
C1_CountersDoNotCross ==
    halt = "none" =>
        /\ last_commit_mark + 1 <= next_file_mark
        /\ \A m \in blobSince : m > next_file_mark
        /\ blobSince = {} => last_commit_mark + 1 < next_file_mark

\* an addFile passed its assertion and left the counters adjacent
C1_AdjacentAfterAddFile ==
    /\ halt = "none"
    /\ blobSince # {}
    /\ last_commit_mark >= 1
    /\ last_commit_mark + 1 = next_file_mark

\* C2 as stated: over the whole run no integer is both a commit mark and a
\* blob mark, recycling included.
C2_NeverBoth == commitMarks \cap blobMarks = {}

\* C2: no integer handed out as a blob mark since next_file_mark was last
\* reset to maxMark is also a commit mark handed out so far, and every such
\* blob mark is greater than every commit mark.
C2_DisjointSinceReset ==
    /\ commitMarks \cap blobSince = {}
    /\ \A c \in commitMarks, f \in blobSince : c < f

\* the blob counter has been recycled, and marks of both kinds are handed out
\* while blob marks of the present round are outstanding
C2_AfterRecycling ==
    /\ halt = "none"
    /\ blobSince # {}
    /\ blobMarks # blobSince
    /\ commitMarks # {}
    /\ \E t \in 1..MaxTxn : txns[t].open /\ txns[t].committed /\ txns[t].files # <<>>

\* ======================================================================
\* Properties of the branch registry and the pending buffers (Spec)

NonDecreasing(s) == \A i \in 1..(Len(s) - 1) : s[i] <= s[i + 1]

StrictlyAscending(s) == \A i \in 1..(Len(s) - 1) : s[i] < s[i + 1]

\* C7 as stated: the commits sequence of every branch record is strictly
\* ascending, no revision is recorded twice on the same ref.
C7_StrictlyAscending ==
    \A ref \in DOMAIN branches : StrictlyAscending(branches[ref].commits)

\* C7: the commits sequence of every branch record is non-decreasing and as
\* long as the marks sequence; a revision is recorded once for every reset,
\* deletion and commit of the ref in it.
C7_NonDecreasing ==
    \A ref \in DOMAIN branches :
        /\ NonDecreasing(branches[ref].commits)
        /\ Len(branches[ref].commits) = Len(branches[ref].marks)
        /\ \A i \in 1..Len(branches[ref].commits) : branches[ref].commits[i] \in 1..rev

\* a ref records one revision twice, and a later one after it
C7_RevisionRecordedTwice ==
    \E ref \in DOMAIN branches :
        LET c == branches[ref].commits
        IN /\ halt = "none"
           /\ Len(c) >= 3
           /\ \E i \in 1..(Len(c) - 1) : c[i] = c[i + 1]
           /\ c[1] < c[Len(c)]

\* the greatest index k with s[k] <= q, 0 when there is none
GreatestAtMost(s, q) ==
    IF \E k \in 1..Len(s) : s[k] <= q
    THEN CHOOSE k \in 1..Len(s) : s[k] <= q /\ \A j \in 1..Len(s) : s[j] <= q => j <= k
    ELSE 0

UnknownRef == "refs/heads/unknown"

\* C8: on the registry of every reachable state, for every source ref and
\* every revision q, markFrom returns -1 when the ref is unknown, has
\* created = 0 or has no commits, 0 when q is below the first recorded
\* revision, and otherwise the mark at the greatest index whose revision is
\* at most q.
C8_MarkFromResult ==
    \A ref \in Refs \cup {UnknownRef}, q \in 0..(MaxRev + 1) :
        LET br == Br(branches, ref)
            got == markFrom(branches, ref, q, FromBranchDesc(ref)).mark
        IN IF ref \notin DOMAIN branches \/ br.created = 0 \/ br.commits = <<>>
           THEN got = -1
           ELSE IF q < br.commits[1]
           THEN got = 0
           ELSE got = br.marks[GreatestAtMost(br.commits, q)]

\* createBranch looked a revision up that lies between two recorded revisions
\* or behind the last one, and staged the reset with the mark it found
C8_LookedUp ==
    \E ref \in DOMAIN resetBranches, src \in DOMAIN branches :
        \E i \in 1..Len(resetBranches[ref]) :
            LET c == resetBranches[ref][i]
            IN /\ c.op = "progress"
               /\ c.comment.kind = "from"
               /\ c.comment.src = src
               /\ c.comment.at >= 1
               /\ c.comment.to >= 1
               /\ c.mark >= 1
               /\ Len(branches[src].commits) >= 2

CreatesThenDelete(s) ==
    /\ Len(s) >= 2
    /\ s[Len(s)].op = "delete"
    /\ \A i \in 1..(Len(s) - 1) : s[i].op = "create"

ForRef(cmds, ref) == SelectSeq(cmds, LAMBDA c : c.ref.name = ref)

NothingFor(ref) ==
    IF opsFlushed
    THEN ForRef(out, ref) = <<>>
    ELSE ref \notin DOMAIN resetBranches /\ ref \notin DOMAIN deletedBranches

\* C9 as stated: after one or more createBranch of a ref and a final
\* deleteBranch of it, in one revision that began with empty buffers, nothing
\* is pending for the ref and the next flush writes nothing for it.
C9_AnyRef ==
    \A ref \in Refs : CreatesThenDelete(ops[ref]) => NothingFor(ref)

\* C9: the same for every ref other than refs/heads/master, whose deleteBranch
\* does nothing.
C9_ExceptMaster ==
    \A ref \in Refs \ {Master} : CreatesThenDelete(ops[ref]) => NothingFor(ref)

\* a ref that was live was reset and then deleted, and a flush that wrote the
\* pending reset of another ref has happened
C9_CollapsedAndFlushed ==
    \E ref \in Refs \ {Master} :
        /\ halt = "none"
        /\ opsFlushed
        /\ out # <<>>
        /\ CreatesThenDelete(ops[ref])

\* the commands a flush wrote after the reload of the branches
LastReloaded(cmds) ==
    IF \E i \in 1..Len(cmds) : cmds[i].op = "reloaded"
    THEN CHOOSE i \in 1..Len(cmds) :
            cmds[i].op = "reloaded" /\ \A j \in (i + 1)..Len(cmds) : cmds[j].op # "reloaded"
    ELSE 0

Payload(cmds) == SubSeq(cmds, LastReloaded(cmds) + 1, Len(cmds))

DeleteThenCreate(s, ref) ==
    /\ Len(s) = 2
    /\ s[1].op = "delete" /\ s[1].live
    /\ s[2].op = "create" /\ s[2].src # ref

\* C10 as stated: after a deleteBranch of a live ref and a createBranch of it
\* from another branch in one revision, the flush writes for the ref only the
\* create-reset and its progress line.
C10_OnlyCreateReset ==
    \A ref \in Refs \ {Master} :
        (halt = "none" /\ opsFlushed /\ DeleteThenCreate(ops[ref], ref)) =>
            LET p == ForRef(Payload(out), ref)
            IN /\ Len(p) = 2
               /\ p[1].op = "reset" /\ p[1].ref = BranchRef(ref)
               /\ p[1].from.t \in {"mark", "ref"}
               /\ p[2].op = "progress" /\ p[2].comment.kind = "from"

\* C10: for a ref other than refs/heads/master the flush writes, in this
\* order, the backup reset when the ref was created in an earlier revision,
\* the deletion reset to the null sha with its progress line, and the
\* create-reset with its progress line.
C10_DeletionThenCreateReset ==
    \A ref \in Refs \ {Master} :
        (halt = "none" /\ opsFlushed /\ DeleteThenCreate(ops[ref], ref)) =>
            LET p == ForRef(Payload(out), ref)
                k == IF ops[ref][1].created # rev THEN 1 ELSE 0
            IN /\ Len(p) = k + 4
               /\ k = 1 => p[1] = ResetCmd([ns |-> "tags/backups", name |-> ref, rev |-> rev],
                                           FromRef(ref))
               /\ p[k + 1] = ResetCmd(BranchRef(ref), null_sha)
               /\ p[k + 2] = ProgressCmd(rev, ref, 0, DeleteComment)
               /\ p[k + 3].op = "reset" /\ p[k + 3].ref = BranchRef(ref)
               /\ p[k + 3].from.t \in {"mark", "ref"}
               /\ p[k + 4].op = "progress" /\ p[k + 4].rev = rev
               /\ p[k + 4].comment.kind = "from"
               /\ p[k + 4].comment.src = ops[ref][2].src

\* a ref created in an earlier revision was deleted and created again, and
\* the flush has happened
C10_RecreatedAndFlushed ==
    \E ref \in Refs \ {Master} :
        /\ halt = "none"
        /\ opsFlushed
        /\ DeleteThenCreate(ops[ref], ref)
        /\ ops[ref][1].created # rev

\* the marks file that holds the marks 1..n
FullMarks(n) ==
    [exists |-> TRUE,
     lines |-> [i \in 1..n |-> [colon |-> TRUE, space |-> TRUE, num |-> i]]]

ProgressLines(lf) == SelectSeq(lf.lines, LAMBDA c : c.op = "progress")

\* C3 as stated: when the run is through revision R, its log holds progress
\* lines up to R and the marks file holds all their marks, setupIncremental
\* with cutoff R + 1 on a fresh repository returns R + 1 and rebuilds, for
\* every ref, the record the run holds.
C3_RecoveryRebuildsRegistry ==
    (/\ halt = "none"
     /\ NoOpenTransaction
     /\ resetBranches = EmptyMap /\ deletedBranches = EmptyMap
     /\ ProgressLines(logfile) # <<>>
     /\ Last(ProgressLines(logfile)).rev = rev) =>
        LET r == setupIncremental(logfile, NoFile, FullMarks(last_commit_mark), rev + 1,
                                  0, ConstructedBranches(svnRules))
        IN /\ r.retval = rev + 1
           /\ \A ref \in Refs : Br(r.branches, ref) = Br(branches, ref)

\* ======================================================================
\* Properties of the incremental recovery (SpecIncr)

\* line i of the log as it was is a progress line the scan reaches below the
\* cutoff, every progress line before it having a mark of at most m
ScanReaches(i, m) ==
    /\ origlog.exists
    /\ i \in 1..Len(origlog.lines)
    /\ origlog.lines[i].op = "progress"
    /\ origlog.lines[i].rev < origcutoff
    /\ \A j \in 1..(i - 1) :
          origlog.lines[j].op = "progress" =>
              origlog.lines[j].rev < origcutoff /\ origlog.lines[j].mark <= m

\* setupIncremental rewound to line i of the log as it was
RewoundTo(i) ==
    /\ cutoff = origlog.lines[i].rev
    /\ retval = origlog.lines[i].rev
    /\ bkup = origlog
    /\ logfile = [exists |-> TRUE, lines |-> SubSeq(origlog.lines, 1, i - 1)]

\* C4: when the scan meets, below the cutoff, a progress line of revision r
\* whose mark is greater than the last valid mark of the marks file,
\* setupIncremental sets cutoff to r, leaves the whole log in <log>.old, keeps
\* in the log exactly the lines before that line, and returns r.
C4_RewindOnUnknownMark ==
    \A i \in 1..MaxLogLen :
        (/\ pc = "setup"
         /\ ScanReaches(i, lastValidMark(marksfile))
         /\ origlog.lines[i].mark > lastValidMark(marksfile)) => RewoundTo(i)

\* the scan accepted a line with a known mark and then met a line with an
\* unknown mark of an earlier revision than the cutoff asked for
C4_Rewound ==
    \E i \in 2..MaxLogLen :
        /\ pc = "setup"
        /\ lastValidMark(marksfile) >= 1
        /\ ScanReaches(i, lastValidMark(marksfile))
        /\ origlog.lines[i].mark > lastValidMark(marksfile)
        /\ origlog.lines[i - 1].op = "progress"
        /\ origlog.lines[i - 1].mark >= 1
        /\ origlog.lines[i].rev + 1 < origcutoff

\* C5 as stated: setupIncremental followed by restoreLog leaves the log as it
\* was before setupIncremental, whatever <log>.old an earlier run left.
C5_LogRestored == (pc = "restored" /\ origlog.exists) => logfile = origlog

\* the marks file holds a malformed line, a duplicate mark or a mark lower
\* than its predecessor
CorruptMarks ==
    /\ marksfile.exists
    /\ \E i \in 1..Len(marksfile.lines) :
          \/ ParseMark(marksfile.lines[i]) = 0
          \/ i > 1 /\ ParseMark(marksfile.lines[i]) <= ParseMark(marksfile.lines[i - 1])

CorruptBeforeGap ==
    /\ marksfile.exists
    /\ \E i \in 1..Len(marksfile.lines) :
          /\ \A j \in 1..(i - 1) : ParseMark(marksfile.lines[j]) = j
          /\ ParseMark(marksfile.lines[i]) <= i - 1

IsDeletionCmd(c) ==
    \/ c.from.t = "sha0"
    \/ c.comment.kind = "delete"
    \/ c.ref.ns = "tags/backups"

IsCreateReset(c) == c.op = "reset" /\ c.ref.ns = "branch" /\ c.from.t \in {"mark", "ref"}

IsDeletionReset(c) == c.op = "reset" /\ c.ref.ns = "branch" /\ c.from.t = "sha0"

\* the calls on a ref end with createBranch calls that follow a deleteBranch
DeletedThenReset(s) ==
    \E i \in 1..(Len(s) - 1) :
        /\ s[i].op = "delete"
        /\ \A j \in (i + 1)..Len(s) : s[j].op = "create"

\* the same, no createBranch of the ref preceding the deleteBranch
OnlyDeletedThenReset(s) ==
    \E i \in 1..(Len(s) - 1) :
        /\ \A j \in 1..i : s[j].op = "delete"
        /\ \A j \in (i + 1)..Len(s) : s[j].op = "create"

\* both payloads of ref are pending, or were written by the flush, deletion
\* first
BothPayloads(ref) ==
    IF opsFlushed
    THEN LET p == ForRef(Payload(out), ref)
         IN /\ \E i \in 1..Len(p) : IsDeletionReset(p[i])
            /\ \E j \in 1..Len(p) : IsCreateReset(p[j])
            /\ \A i, j \in 1..Len(p) :
                  (IsDeletionCmd(p[i]) /\ ~IsDeletionCmd(p[j])) => i < j
    ELSE /\ ref \in DOMAIN deletedBranches
         /\ ref \in DOMAIN resetBranches
         /\ \E i \in 1..Len(deletedBranches[ref]) : IsDeletionReset(deletedBranches[ref][i])
         /\ \E j \in 1..Len(resetBranches[ref]) : IsCreateReset(resetBranches[ref][j])

\* C11 as stated: when a ref is deleted and later reset within one revision,
\* both payloads are pending and the flush writes the deletion before the
\* reset.
C11_AnyDeleteThenReset ==
    \A ref \in Refs :
        (halt = "none" /\ DeletedThenReset(ops[ref])) => BothPayloads(ref)

\* C11: the same for a ref other than refs/heads/master whose deleteBranch
\* found no reset of the ref pending (a pending reset is dropped by the
\* deletion, and the deletion with it).
C11_DeletionStaysPending ==
    \A ref \in Refs \ {Master} :
        (halt = "none" /\ OnlyDeletedThenReset(ops[ref])) => BothPayloads(ref)

\* a ref was deleted and then reset, and the flush has written both
C11_BothFlushed ==
    \E ref \in Refs \ {Master} :
        /\ halt = "none"
        /\ opsFlushed
        /\ OnlyDeletedThenReset(ops[ref])
        /\ Len(ForRef(Payload(out), ref)) >= 4

BufferLen(m) == Len(Concat(CHOOSE o \in Orders(DOMAIN m) : TRUE, m))

\* C12: a step of Repository::commit leaves both buffers empty; when one of
\* them held something the child is running afterwards and has been written
\* every pending command, every command of a deletion before every command
\* of a reset; when both were empty nothing is written and the process cache
\* and the child are left alone.
C12_FlushOrder ==
    [][RepoCommit =>
        /\ deletedBranches' = EmptyMap
        /\ resetBranches' = EmptyMap
        /\ (deletedBranches = EmptyMap /\ resetBranches = EmptyMap) =>
              /\ out' = <<>>
              /\ UNCHANGED <<processCache, fastImportRunning, processHasStarted, logfile>>
        /\ (deletedBranches # EmptyMap \/ resetBranches # EmptyMap) =>
              LET p == Payload(out')
              IN /\ fastImportRunning'[This]
                 /\ Len(p) = BufferLen(deletedBranches) + BufferLen(resetBranches)
                 /\ \A i \in 1..Len(p) :
                       IsDeletionCmd(p[i]) <=> i <= BufferLen(deletedBranches)
    ]_vars

\* a flush has written a deletion and a reset of two refs
C12_FlushedBoth ==
    /\ halt = "none"
    /\ opsFlushed
    /\ \E i, j \in 1..Len(out) :
          /\ IsDeletionReset(out[i]) /\ IsCreateReset(out[j])
          /\ out[i].ref.name # out[j].ref.name

\* ======================================================================
\* The process cache (SpecCache)

CacheSet(cache) == {cache[i] : i \in 1..Len(cache)}

Pos(s, x) == CHOOSE i \in 1..Len(s) : s[i] = x

Closes(events) == SelectSeq(events, LAMBDA ev : ev.e = "close")

\* every close of events comes before every insert and every start
ClosesFirst(events) ==
    \A i, j \in 1..Len(events) :
        (events[i].e = "close" /\ events[j].e # "close") => i < j

\* C13: a startFastImport of a repository that is in the cache, or that finds
\* room in it, closes no child; one of a repository that is not in a full
\* cache closes exactly one child, that of the cached repository whose latest
\* touch is the oldest, before it inserts and starts the touched repository,
\* which ends at the most recently used end of the cache.
C13_EvictsLeastRecentlyTouched ==
    [][\A repo \in Repos :
          (\E stuck \in SUBSET Repos : StartFastImport(repo, stuck)) =>
              LET cached == CacheSet(processCache)
                  closes == Closes(procEvents')
                  full == Len(processCache) >= maxSimultaneousProcesses
              IN /\ ClosesFirst(procEvents')
                 /\ processCache' # <<>> /\ Last(processCache') = repo
                 /\ (repo \in cached \/ ~full) =>
                       /\ closes = <<>>
                       /\ CacheSet(processCache') = cached \cup {repo}
                       /\ \A r \in Repos \ {repo} :
                             fastImportRunning'[r] = fastImportRunning[r]
                 /\ (repo \notin cached /\ full) =>
                       /\ Len(closes) = 1
                       /\ LET v == closes[1].repo
                          IN /\ v \in cached
                             /\ \A r \in cached \ {v} : Pos(touched, v) < Pos(touched, r)
                             /\ closes[1].writes =
                                   (IF fastImportRunning[v] THEN <<CheckpointCmd>> ELSE <<>>)
                             /\ ~processHasStarted'[v]
                             /\ CacheSet(processCache') = (cached \ {v}) \cup {repo}
    ]_vars

\* the last operation closed a running child, then inserted and started the
\* repository it touched
C13_EvictedThenStarted ==
    /\ halt = "none"
    /\ Len(procEvents) = 3
    /\ procEvents[1].e = "close" /\ procEvents[1].writes = <<CheckpointCmd>>
    /\ procEvents[2].e = "insert"
    /\ procEvents[3].e = "start" /\ procEvents[3].repo = procEvents[2].repo
    /\ ~fastImportRunning[procEvents[1].repo]

\* what a closeFastImport step leaves whatever the child does: the repository
\* is out of the cache with processHasStarted false, the other repositories
\* are as they were, and checkpoint is written exactly when the child ran
CloseFrame(repo) ==
    /\ ~processHasStarted'[repo]
    /\ repo \notin CacheSet(processCache')
    /\ CacheSet(processCache') = CacheSet(processCache) \ {repo}
    /\ \A r \in Repos \ {repo} :
          /\ fastImportRunning'[r] = fastImportRunning[r]
          /\ processHasStarted'[r] = processHasStarted[r]
    /\ Last(procEvents').writes = (IF fastImportRunning[repo] THEN <<CheckpointCmd>> ELSE <<>>)

StagedProgress(rb, branch) == Last(rb[branch])

\* C14 as stated: the comment createBranch stages always carries " at r" with
\* the source revision, followed by " => r" exactly when the closest
\* recorded commit differs from it.
C14_AlwaysAtRev ==
    [][\A branch \in Refs, branchFrom \in Refs, branchRevNum \in 1..MaxRev :
          (createBranch(branch, branchFrom, branchRevNum) /\ halt' = "none") =>
              LET src == Br(branches, branchFrom)
                  k == GreatestAtMost(src.commits, branchRevNum)
                  c == StagedProgress(resetBranches', branch).comment
              IN /\ c.kind = "from" /\ c.src = branchFrom
                 /\ c.at = branchRevNum
                 /\ c.to # -1 <=> (k = 0 \/ src.commits[k] # branchRevNum)
    ]_vars

\* C14: the comment createBranch stages is "from branch <source>"; it carries
\* " at r" with the source revision exactly when that revision is not the
\* last one recorded for the source and a commit is recorded at or before it,
\* followed by " => r" with the closest commit when that differs; it ends
\* with ", deleted/unknown" exactly when the mark is 0.  Branching from the
\* source's last recorded revision stages "from branch <source>" alone.
C14_AtRevUnlessLatest ==
    [][\A branch \in Refs, branchFrom \in Refs, branchRevNum \in 1..MaxRev :
          (createBranch(branch, branchFrom, branchRevNum) /\ halt' = "none") =>
              LET src == Br(branches, branchFrom)
                  k == GreatestAtMost(src.commits, branchRevNum)
                  annotated == branchRevNum # Last(src.commits) /\ k > 0
                  p == StagedProgress(resetBranches', branch)
                  c == p.comment
              IN /\ p.op = "progress"
                 /\ c.kind = "from" /\ c.src = branchFrom
                 /\ c.at = (IF annotated THEN branchRevNum ELSE -1)
                 /\ c.to = (IF annotated /\ src.commits[k] # branchRevNum
                            THEN src.commits[k] ELSE -1)
                 /\ c.unknown = (p.mark = 0)
    ]_vars

\* createBranch branched from the last recorded revision of a live source and
\* staged the comment without " at r"
C14_BranchedFromLatest ==
    \E branch \in DOMAIN resetBranches, branchFrom \in DOMAIN branches :
        LET p == StagedProgress(resetBranches, branch)
        IN /\ halt = "none"
           /\ ops[branch] # <<>> /\ Last(ops[branch]).op = "create"
           /\ Last(ops[branch]).src = branchFrom
           /\ branch # branchFrom
           /\ p.op = "progress"
           /\ p.comment.kind = "from" /\ p.comment.src = branchFrom
           /\ p.comment.at = -1 /\ ~p.comment.unknown
           /\ p.mark >= 1
           /\ p.mark = Last(branches[branchFrom].marks)

\* ======================================================================
\* Merge parents (SpecMerge)

\* the marks of the merge lines of cmds, in order
MergeMarks(cmds) ==
    LET m == SelectSeq(cmds, LAMBDA c : c.op = "merge")
    IN [i \in 1..Len(m) |-> m[i].mark]

SeqSet(s) == {s[i] : i \in 1..Len(s)}

Greatest(S) == CHOOSE m \in S : \A x \in S : x <= m

\* C15: a Transaction::commit of a transaction whose log is manufactured by
\* cvs2svn and that staged more than one merge parent writes exactly one
\* merge line, which names the greatest staged mark.
C15_OnlyGreatestMerge ==
    [][(TransactionCommit(1) /\ halt' = "none"
        /\ txns[1].manufactured /\ Len(txns[1].merges) > 1) =>
            MergeMarks(out') = <<Greatest(SeqSet(txns[1].merges))>>
    ]_vars

\* a manufactured transaction that staged several merges committed: one merge
\* line, for a mark greater than the ones the transaction keeps, and no
\* description on the progress line
C15_ManufacturedCommitted ==
    /\ halt = "none"
    /\ txns[1].open /\ txns[1].committed /\ txns[1].manufactured
    /\ Len(MergeMarks(out)) = 1
    /\ Len(txns[1].merges) >= 1
    /\ \E i \in 1..Len(txns[1].merges) : txns[1].merges[i] < MergeMarks(out)[1]
    /\ out # <<>> /\ Last(out).comment.kind = "none"

\* C16: the commit block Transaction::commit writes has at most maxParents
\* parents: the natural parent, if any, and the merge lines.
C16_ParentLimit ==
    [][(TransactionCommit(1) /\ halt' = "none") =>
          (IF parentMark(Br(branches, txns[1].branch)) # 0 THEN 1 ELSE 0)
              + Len(MergeMarks(out')) <= maxParents
    ]_vars

\* a transaction that staged more merge parents than fit committed: the
\* merge lines stop at the limit
C16_MergesDropped ==
    /\ halt = "none"
    /\ txns[1].open /\ txns[1].committed /\ ~txns[1].manufactured
    /\ Len(txns[1].merges) > maxParents
    /\ Len(MergeMarks(out)) = maxParents
    /\ Last(out).comment.kind = "merge"
    /\ Last(out).comment.merges = MergeMarks(out)

\* ======================================================================
\* Recycling of the blob marks (SpecMarks)

\* C17: next_file_mark goes up only in the step that destroys the last
\* outstanding transaction, which puts it back to maxMark; in every other
\* step it stays or goes down, so that the marks addFile handed out since the
\* last reset are as many as the counter went down: pairwise distinct.
C17_ResetOnlyWhenNoneOutstanding ==
    [][/\ (outstandingTransactions > 0 /\ outstandingTransactions' = 0) =>
              next_file_mark' = maxMark /\ blobSince' = {}
       /\ outstandingTransactions' > 0 => next_file_mark' <= next_file_mark
       /\ next_file_mark' > next_file_mark =>
              outstandingTransactions' = 0 /\ next_file_mark' = maxMark
       /\ halt' = "none" => Cardinality(blobSince') = maxMark - next_file_mark'
    ]_vars

\* the last outstanding transaction was destroyed after two blob marks and a
\* commit mark were handed out: the counter is back at maxMark
C17_Recycled ==
    /\ halt = "none"
    /\ outstandingTransactions = 0
    /\ next_file_mark = maxMark
    /\ Cardinality(blobMarks) >= 2
    /\ blobSince = {}
    /\ commitMarks # {}

\* ======================================================================
\* createBranch from a source that is missing (SpecNotes)

\* markFrom finds nothing to branch from: the source is not registered, was
\* never created, or has no recorded commit
NoSource(b, branchFrom) ==
    \/ branchFrom \notin DOMAIN b
    \/ b[branchFrom].created = 0
    \/ b[branchFrom].commits = <<>>

\* C19: a createBranch whose source is not registered, has created = 0 or
\* has no recorded commit ends in a fatal error; the record of the new
\* branch and the notes are as they were, nothing is added to the pending
\* resets or deletions, and nothing is written.
C19_MissingSourceStagesNothing ==
    [][\A branch \in Refs, branchFrom \in Refs, branchRevNum \in 1..MaxRev :
          (createBranch(branch, branchFrom, branchRevNum) /\ NoSource(branches, branchFrom)) =>
              /\ halt' = "fatal"
              /\ Br(branches', branch) = Br(branches, branch)
              /\ notes' = notes
              /\ UNCHANGED <<resetBranches, deletedBranches, logfile>>
              /\ out' = <<>>
    ]_vars

\* createBranch failed on a source without commits that carries a note the
\* other branch does not carry, while a reset was pending
C19_FailedOnMissingSource ==
    /\ halt = "fatal"
    /\ \E src \in Refs, other \in Refs :
          /\ NoSource(branches, src)
          /\ notes[src] # ""
          /\ notes[other] = ""
    /\ resetBranches # EmptyMap

\* ======================================================================
\* deleteBranch of refs/heads/master (Spec)

\* C20: a deleteBranch of refs/heads/master leaves the registry, the notes,
\* both pending buffers, the mark counters, the process cache, the child and
\* the log as they were, and writes nothing to the child.
C20_DeleteMasterIsNoOp ==
    [][deleteBranch(Master) =>
          /\ UNCHANGED <<branches, notes, resetBranches, deletedBranches>>
          /\ UNCHANGED <<last_commit_mark, next_file_mark, logfile, halt>>
          /\ UNCHANGED <<processCache, fastImportRunning, processHasStarted>>
          /\ out' = <<>>
    ]_vars

\* deleteBranch was called on refs/heads/master while master was live and a
\* reset of it was pending: the record is still live and the reset pending
C20_DeletedLiveMaster ==
    /\ halt = "none"
    /\ ~opsFlushed
    /\ ops[Master] # <<>>
    /\ Last(ops[Master]).op = "delete"
    /\ Last(ops[Master]).live
    /\ IsLive(branches[Master])
    /\ Master \in DOMAIN resetBranches
    /\ Master \notin DOMAIN deletedBranches

\* ======================================================================
\* The natural parent of a commit (Spec)

\* C21 as stated: the natural parent of a commit is the last entry of the
\* branch's marks that is not 0, and there is none only when the record holds
\* no such entry.
C21_ParentIsLastNonZeroMark ==
    [][(TransactionCommit(1) /\ halt' = "none") =>
          txns'[1].parentmark = LastNonZero(Br(branches, txns[1].branch).marks)
    ]_vars

\* C21: the natural parent of a commit is the last entry of the branch's
\* marks when the branch was created and that entry is not 0; the commit has
\* no natural parent when the record is empty or its last entry is 0, also
\* when an earlier entry is not 0 (a branch that was deleted after a commit);
\* the branch then counts as created at the revision of the commit.
C21_ParentIsLastMarkUnlessZero ==
    [][(TransactionCommit(1) /\ halt' = "none") =>
          LET br == Br(branches, txns[1].branch)
              tip == IF br.marks = <<>> THEN 0 ELSE br.marks[Len(br.marks)]
              parent == txns'[1].parentmark
          IN /\ (br.created # 0 /\ tip # 0) => parent = tip
             /\ (br.created = 0 \/ tip = 0) => parent = 0
             /\ parent = 0 => branches'[txns[1].branch].created = txns[1].revnum
             /\ parent # 0 =>
                   /\ parent = LastNonZero(br.marks)
                   /\ branches'[txns[1].branch].created = br.created
    ]_vars

\* a commit on a branch that was deleted after a commit: no natural parent,
\* although the record holds a mark that is not 0
C21_CommittedOnDeletedBranch ==
    \E t \in 1..MaxTxn :
        /\ halt = "none"
        /\ txns[t].open /\ txns[t].committed
        /\ txns[t].parentmark = 0
        /\ LET m == branches[txns[t].branch].marks
           IN /\ Len(m) >= 3
              /\ m[Len(m) - 1] = 0
              /\ LastNonZero(SubSeq(m, 1, Len(m) - 1)) # 0

\* ======================================================================
\* The reload at every start of the child (SpecReload)

\* the refs of registry b whose record is not empty and ends with a mark
\* other than 0
LiveRefs(b) == {ref \in DOMAIN b : b[ref].marks # <<>> /\ b[ref].marks[Len(b[ref].marks)] # 0}

\* cmds starts with one reset and one "reloaded" line for each ref of live, at
\* the last mark of its record in b, and holds no other "reloaded" line
ReloadPrelude(cmds, b, live) ==
    LET n == Cardinality(live)
    IN /\ Len(cmds) >= 2 * n
       /\ \A ref \in live :
             /\ \E i \in 1..n :
                   /\ cmds[2 * i - 1] = ResetCmd(BranchRef(ref), FromMark(Last(b[ref].marks)))
                   /\ cmds[2 * i] = ReloadedCmd(ref)
             /\ Cardinality({i \in 1..(2 * n) :
                               cmds[i].op = "reset" /\ cmds[i].ref = BranchRef(ref)}) = 1
       /\ \A j \in 1..Len(cmds) : cmds[j].op = "reloaded" => j <= 2 * n
       /\ \A j \in 1..(2 * n) : cmds[j].op \in {"reset", "reloaded"} /\ cmds[j].ref.name \in live

\* C22: in every step that starts the child of the repository, what is
\* written to it starts with exactly one reset at the last mark, followed by
\* the "reloaded" line, for each branch whose record is not empty and does
\* not end with mark 0, and with nothing for the other branches; a step that
\* finds the child running writes no such line.
C22_ReloadAtEveryStart ==
    [][/\ (~fastImportRunning[This] /\ fastImportRunning'[This]) =>
              ReloadPrelude(out', branches, LiveRefs(branches))
       /\ (fastImportRunning[This] /\ fastImportRunning'[This]) =>
              \A j \in 1..Len(out') : out'[j].op # "reloaded"
    ]_vars

\* the child was closed and started again while one branch was live and the
\* other deleted: the reload names the live branch only
C22_RestartedAfterClose ==
    /\ halt = "none"
    /\ fastImportRunning[This]
    /\ procEvents # <<>> /\ Last(procEvents).e = "close"
    /\ Last(procEvents).writes = <<CheckpointCmd>>
    /\ \E live \in DOMAIN branches, dead \in DOMAIN branches :
          /\ Len(out) >= 3
          /\ branches[live].marks # <<>>
          /\ out[1] = ResetCmd(BranchRef(live), FromMark(Last(branches[live].marks)))
          /\ out[2] = ReloadedCmd(live)
          /\ out[3].op \notin {"reset", "reloaded"}
          /\ Len(branches[dead].marks) >= 2
          /\ Last(branches[dead].marks) = 0

\* ======================================================================
\* Restart of a child (SpecCache)

\* the child of repo was started and closeFastImport has not run on the
\* repository since
Unclosed(repo) == childLife[repo] \in {"started", "restarted"}

HasStart(events, repo) ==
    \E i \in 1..Len(events) : events[i].e = "start" /\ events[i].repo = repo

\* C23: a startFastImport of a repository whose child is not running is fatal
\* exactly when the child was started and closeFastImport has not run on the
\* repository since; otherwise, after a closeFastImport by an eviction or by
\* the repository itself and for a first start, it starts a child and goes on.
C23_FatalOnlyAfterCrash ==
    [][\A repo \in Repos :
          ((\E stuck \in SUBSET Repos : StartFastImport(repo, stuck))
           /\ ~fastImportRunning[repo]) =>
              /\ (halt' = "fatal") <=> Unclosed(repo)
              /\ Unclosed(repo) =>
                    ~fastImportRunning'[repo] /\ ~HasStart(procEvents', repo)
              /\ ~Unclosed(repo) =>
                    /\ halt' = "none"
                    /\ fastImportRunning'[repo]
                    /\ processHasStarted'[repo]
                    /\ HasStart(procEvents', repo)
    ]_vars

\* a child was started again after an eviction closed it, and the start of
\* another repository whose child had stopped by itself was fatal
C23_RestartedAndFatal ==
    /\ halt = "fatal"
    /\ \E r \in Repos, c \in Repos :
          /\ childLife[r] = "restarted"
          /\ fastImportRunning[r]
          /\ r # c
          /\ Unclosed(c)
          /\ ~fastImportRunning[c]
          /\ processCache # <<>> /\ Last(processCache) = c

\* ======================================================================
\* Size of the process cache (SpecCache)

NoDuplicates(s) == \A i, j \in 1..Len(s) : i # j => s[i] # s[j]

RunningRepos == {r \in Repos : fastImportRunning[r]}

Staged(m, m2, branch) ==
    LET old == IF branch \in DOMAIN m THEN Len(m[branch]) ELSE 0
    IN SubSeq(m2[branch], old + 1, Len(m2[branch]))

IsBackup(c, branch, revnum) ==
    /\ c.op = "reset"
    /\ c.ref.ns \in {"backups", "tags/backups"}
    /\ c.ref.name = branch
    /\ c.ref.rev = revnum
    /\ c.from = FromRef(branch)

\* staged is the reset command of branch and its progress line, with a backup
\* reset ahead of them exactly when expected
BackupRule(staged, branch, revnum, expected) ==
    /\ Len(staged) = (IF expected THEN 3 ELSE 2)
    /\ staged[Len(staged)].op = "progress"
    /\ staged[Len(staged) - 1].op = "reset"
    /\ staged[Len(staged) - 1].ref = BranchRef(branch)
    /\ expected => IsBackup(staged[1], branch, revnum)

\* the resetBranch calls of a step: every createBranch that goes through and
\* every deleteBranch, other than of master, that finds no reset pending
StagesWithBackup(Expected(_)) ==
    \A branch \in Refs :
        /\ ((\E branchFrom \in Refs, branchRevNum \in 1..MaxRev :
                createBranch(branch, branchFrom, branchRevNum)) /\ halt' = "none") =>
              BackupRule(Staged(resetBranches, resetBranches', branch), branch, rev,
                         Expected(Br(branches, branch)))
        /\ (deleteBranch(branch) /\ branch # Master /\ branch \notin DOMAIN resetBranches) =>
              BackupRule(Staged(deletedBranches, deletedBranches', branch), branch, rev,
                         Expected(Br(branches, branch)))

LatestEntryElsewhere(br) ==
    br.marks # <<>> /\ br.marks[Len(br.marks)] # 0 /\ br.commits[Len(br.commits)] # rev

CreatedElsewhere(br) ==
    br.marks # <<>> /\ br.marks[Len(br.marks)] # 0 /\ br.created # 0 /\ br.created # rev

\* C24 as stated: resetBranch stages a backup ahead of the reset exactly when
\* the record is live and its latest entry is at another revision.
C24_BackupUnlessLatestEntryHere ==
    [][StagesWithBackup(LatestEntryElsewhere)]_vars

\* C24: resetBranch stages a backup ahead of the reset exactly when the
\* record is live and the branch was created at another revision (created is
\* the revision of the last reset of the branch, or of its first commit):
\* a branch created earlier and committed to at this revision is backed up,
\* a branch that was reset at this revision is not.
C24_BackupUnlessCreatedHere ==
    [][StagesWithBackup(CreatedElsewhere)]_vars

\* a backup is pending for a branch whose latest entry before the reset was
\* recorded at the revision of the reset
C24_BackedUpAfterCommitHere ==
    \E branch \in DOMAIN branches :
        LET br == branches[branch]
            n == Len(br.commits)
            pending == (IF branch \in DOMAIN resetBranches THEN resetBranches[branch] ELSE <<>>)
                       \o (IF branch \in DOMAIN deletedBranches
                           THEN deletedBranches[branch] ELSE <<>>)
        IN /\ halt = "none"
           /\ n >= 3
           /\ br.commits[n] = rev /\ br.commits[n - 1] = rev /\ br.commits[n - 2] < rev
           /\ br.marks[n - 1] # 0
           /\ \E i \in 1..Len(pending) : IsBackup(pending[i], branch, rev)

\* ======================================================================
\* Blob headers ahead of the file lines of a commit (SpecMarks)

\* the marks of the M lines in what the step wrote
FileLineMarks(cmds) == {cmds[i].mark : i \in {j \in 1..Len(cmds) : cmds[j].op = "M"}}

\* C25: outside dry-run, every mark that an M line of a commit block names
\* is the mark of a blob header written to the stream before the commit
\* block and after next_file_mark was last put back to maxMark.
C25_FileLinesNameWrittenBlobs ==
    [][\A t \in 1..MaxTxn :
          (~dry_run /\ TransactionCommit(t)) => FileLineMarks(out') \subseteq blobHeaders]_vars

\* a commit block with two M lines was written while another transaction
\* was outstanding
C25_CommittedTwoFiles ==
    /\ halt = "none"
    /\ outstandingTransactions = 2
    /\ Cardinality(FileLineMarks(out)) = 2
    /\ \E i \in 1..Len(out) : out[i].op = "commit"

\* ======================================================================
\* The registry after a rewind (SpecIncr)

\* C26 as stated: after setupIncremental returned the resume revision N, every
\* entry of every branch record has a revision strictly less than N, also
\* when the scan stopped at an unknown mark in the middle of a revision.
C26_EntriesBelowResume ==
    pc # "start" =>
        \A ref \in DOMAIN branches :
            \A i \in 1..Len(branches[ref].commits) : branches[ref].commits[i] < retval

\* ======================================================================
\* The registry after a lookup (SpecLookup)

\* SpecLookup: branch creations and transactions that copy from other
\* branches, on the registry of a fresh repository
NextLookup ==
    \/ \E branch \in Refs, branchFrom \in Refs :
          NoOpenTransaction /\ createBranch(branch, branchFrom, rev)
    \/ \E branch \in Refs : newTransaction(1, branch)
    \/ \E branchFrom \in Refs : noteCopyFromBranch(1, branchFrom, rev)
    \/ TransactionCommit(1)
    \/ DeleteTransaction(1)
    \/ NoOpenTransaction /\ RepoCommit
    \/ NextRevision

SpecLookup == Init /\ [][NextLookup]_vars

\* Repository::branchExists
branchExists(b, branch) == branch \in DOMAIN b

\* the steps that call markFrom and nothing else that writes the registry:
\* noteCopyFromBranch, and a createBranch that throws
LooksUp ==
    \/ \E branchFrom \in Refs : noteCopyFromBranch(1, branchFrom, rev)
    \/ /\ \E branch \in Refs, branchFrom \in Refs : createBranch(branch, branchFrom, rev)
       /\ halt' = "fatal"

\* C28 as stated: the lookup of a source ref leaves the branch registry as it
\* was: branchExists answers the same for every ref and every record is
\* unchanged, also when the source ref is unknown.
C28_LookupLeavesRegistry ==
    [][LooksUp =>
          /\ \A r \in Refs : branchExists(branches', r) = branchExists(branches, r)
          /\ \A r \in DOMAIN branches : branches'[r] = branches[r]]_vars

\* ======================================================================
\* Merge lines and the natural parent (SpecMerge)

\* the marks of the merge lines in what the step wrote
MergeLineMarks(cmds) == {cmds[i].mark : i \in {j \in 1..Len(cmds) : cmds[j].op = "merge"}}

\* C29 as stated: no merge line of a commit block names the mark of the
\* commit's own parent, the last mark of its branch, whether the merges are
\* written in order or the cvs2svn workaround writes only the largest.
C29_NoMergeOfParent ==
    [][\A t \in 1..MaxTxn :
          TransactionCommit(t) =>
              parentMark(Br(branches, txns[t].branch)) \notin MergeLineMarks(out')]_vars

====
